---- MODULE Spec2Model ----
(***************************************************************************)
(* Admin portal front end (Regions, Managers, Lifeguards, Incidents).      *)
(*                                                                         *)
(* The model follows the React components: every useState cell is a field  *)
(* of the component's record, every handler is one action (up to its first *)
(* await) plus one action for its continuation after the awaited call, and *)
(* the REST server the components talk to is a small state machine of its  *)
(* own.  A string is a sequence of symbols, " " being the white space that *)
(* String.prototype.trim removes; a JavaScript object is the sequence of   *)
(* its entries in insertion order.                                         *)
(***************************************************************************)
EXTENDS Integers, Sequences, FiniteSets, TLC

(***************************************************************************)
(* Bounds of the model.                                                    *)
(***************************************************************************)
\* user-initiated network calls (create, update, delete, assign) per behaviour
MaxMutations == 2
\* checkbox clicks per behaviour of the assignment panel of the Regions tab
MaxToggles == 3
\* forms submitted per behaviour, not counting a form submitted while a call of
\* its kind is in flight
MaxSubmits == 1
MaxInputs == 3
\* delete confirmations the user declines per behaviour
MaxDeclined == 1
\* rows of a locations editor
MaxRows == 2
\* incidents the back end holds at the start, where the collection is drawn
MaxIncidents == 3

(***************************************************************************)
(* Values.                                                                 *)
(***************************************************************************)
\* null of a string-valued cell (error messages)
Null == "null"
\* null of an id-valued cell (editingRegionId, assigningRegionId, ...)
NoId == 0

Range(s) == {s[i] : i \in 1..Len(s)}
SeqRemoveAt(s, i) == [j \in 1..(Len(s) - 1) |-> IF j < i THEN s[j] ELSE s[j + 1]]
Front(s) == SubSeq(s, 1, Len(s) - 1)
Last(s) == s[Len(s)]

(***************************************************************************)
(* Strings.                                                                *)
(***************************************************************************)
RECURSIVE trimStart(_)
trimStart(s) ==
  IF s = <<>> THEN <<>>
  ELSE IF Head(s) = " " THEN trimStart(Tail(s)) ELSE s

RECURSIVE trimEnd(_)
trimEnd(s) ==
  IF s = <<>> THEN <<>>
  ELSE IF Last(s) = " " THEN trimEnd(Front(s)) ELSE s

\* the text as it was typed
untrimmed(s) == s

\* String.prototype.trim
trim(s) == trimEnd(trimStart(s))

\* truthiness of a string: the empty string is falsy
truthy(s) == s # <<>>

(***************************************************************************)
(* JavaScript objects with string keys: entries in insertion order, keys   *)
(* unique.  Assigning to an existing key keeps its position.               *)
(***************************************************************************)
EmptyObject == <<>>
Keys(obj) == {obj[i].k : i \in 1..Len(obj)}
HasKey(obj, key) == key \in Keys(obj)
Get(obj, key) == (CHOOSE i \in 1..Len(obj) : obj[i].k = key)
ValueOf(obj, key) == obj[Get(obj, key)].v
Put(obj, key, val) ==
  IF HasKey(obj, key)
  THEN [i \in 1..Len(obj) |-> IF obj[i].k = key THEN [k |-> key, v |-> val] ELSE obj[i]]
  ELSE Append(obj, [k |-> key, v |-> val])
UniqueKeys(obj) == \A i, j \in 1..Len(obj) : obj[i].k = obj[j].k => i = j

(***************************************************************************)
(* JSON text and JSON.parse.  A text is a sequence of tokens; the grammar  *)
(* covers scalars, arrays of scalars and objects whose member values are   *)
(* string literals, which is what the locations editors are given here.    *)
(***************************************************************************)
LBrace == [t |-> "{"]
RBrace == [t |-> "}"]
LBracket == [t |-> "["]
RBracket == [t |-> "]"]
Colon == [t |-> ":"]
Comma == [t |-> ","]
NullTok == [t |-> "null"]
TrueTok == [t |-> "true"]
NumTok == [t |-> "num"]
StrTok(s) == [t |-> "str", v |-> s]

JNull == [type |-> "null"]
JBool == [type |-> "boolean"]
JNum == [type |-> "number"]
JStr(s) == [type |-> "string", str |-> s]
JArr(n) == [type |-> "array", len |-> n]
JObj(obj) == [type |-> "object", obj |-> obj]

IsScalarTok(tok) == tok.t \in {"null", "true", "num", "str"}
ScalarValue(tok) ==
  CASE tok.t = "null" -> JNull
    [] tok.t = "true" -> JBool
    [] tok.t = "num" -> JNum
    [] tok.t = "str" -> JStr(tok.v)

SyntaxError == [ok |-> FALSE]
Parsed(val) == [ok |-> TRUE, val |-> val]

\* elements of an array: scalar (, scalar)*
RECURSIVE parseElements(_, _)
parseElements(toks, n) ==
  IF Len(toks) = 0 THEN SyntaxError
  ELSE IF ~IsScalarTok(toks[1]) THEN SyntaxError
  ELSE IF Len(toks) = 1 THEN Parsed(JArr(n + 1))
  ELSE IF toks[2] # Comma THEN SyntaxError
  ELSE parseElements(SubSeq(toks, 3, Len(toks)), n + 1)

\* members of an object: "key" : "value" (, "key" : "value")*; a repeated key
\* keeps its first position and takes the last value
RECURSIVE parseMembers(_, _)
parseMembers(toks, obj) ==
  IF Len(toks) < 3 THEN SyntaxError
  ELSE IF toks[1].t # "str" \/ toks[2] # Colon \/ toks[3].t # "str" THEN SyntaxError
  ELSE LET next == Put(obj, toks[1].v, toks[3].v)
       IN IF Len(toks) = 3 THEN Parsed(JObj(next))
          ELSE IF toks[4] # Comma THEN SyntaxError
          ELSE parseMembers(SubSeq(toks, 5, Len(toks)), next)

\* JSON.parse: the parsed value, or SyntaxError where JSON.parse throws
JSONparse(text) ==
  IF Len(text) = 0 THEN SyntaxError
  ELSE IF Len(text) = 1
       THEN IF IsScalarTok(text[1]) THEN Parsed(ScalarValue(text[1])) ELSE SyntaxError
  ELSE IF text[1] = LBracket /\ Last(text) = RBracket
       THEN IF Len(text) = 2 THEN Parsed(JArr(0))
            ELSE parseElements(SubSeq(text, 2, Len(text) - 1), 0)
  ELSE IF text[1] = LBrace /\ Last(text) = RBrace
       THEN IF Len(text) = 2 THEN Parsed(JObj(EmptyObject))
            ELSE parseMembers(SubSeq(text, 2, Len(text) - 1), EmptyObject)
  ELSE SyntaxError

\* the typeof operator on a parsed JSON value: null and arrays are "object"
typeof(val) ==
  IF val.type \in {"object", "array", "null"} THEN "object" ELSE val.type

\* Array.isArray
isArray(val) == val.type = "array"

\* JSON.stringify(locations, null, 2) of a locations object
RECURSIVE stringifyMembers(_)
stringifyMembers(obj) ==
  IF Len(obj) = 0 THEN <<>>
  ELSE LET m == <<StrTok(obj[1].k), Colon, StrTok(obj[1].v)>>
       IN IF Len(obj) = 1 THEN m
          ELSE m \o <<Comma>> \o stringifyMembers(Tail(obj))

JSONstringify(obj) == <<LBrace>> \o stringifyMembers(obj) \o <<RBrace>>

(***************************************************************************)
(* State.                                                                  *)
(***************************************************************************)
VARIABLES
  screen,        \* the component tree that is mounted (fixed per behaviour)
  budget,        \* user-initiated calls the behaviour may issue (fixed per behaviour)
  refreshSignal, \* App: the shared refresh counter
  ui,            \* the useState cells of every component: component -> record
  server,        \* the REST back end
  net,           \* calls in flight: id -> call
  issued,        \* calls issued so far (the id of the last one)
  mutations,     \* user-initiated calls issued so far
  inputs,        \* changes of a form field made so far
  declined       \* delete confirmations declined so far

vars == <<screen, budget, refreshSignal, ui, server, net, issued, mutations, inputs, declined>>

regionList == ui.RegionList
managerList == ui.ManagerList
lifeguardList == ui.LifeguardList
incidentList == ui.IncidentList
regionForm == ui.RegionForm
legacyList == ui.LegacyRegionList

\* the screens: the three tabs of App, the raw-JSON variant of the regions tab,
\* the incident list, and the RegionForm app (form and list side by side)
Screens == {"regions", "regionsJson", "managers", "lifeguards", "incidents", "regionFormApp"}

\* the list of a screen: the component whose useEffect depends on refreshSignal
Listener(scr) ==
  CASE scr \in {"regions", "regionsJson"} -> "RegionList"
    [] scr = "managers" -> "ManagerList"
    [] scr = "lifeguards" -> "LifeguardList"
    [] scr = "incidents" -> "IncidentList"
    [] scr = "regionFormApp" -> "LegacyRegionList"

Lists == {"RegionList", "ManagerList", "LifeguardList", "IncidentList", "LegacyRegionList"}

(***************************************************************************)
(* The REST back end.                                                      *)
(***************************************************************************)
North == <<"north">>
South == <<"south">>
Pool == <<"pool">>
MainSt == <<"1", " ", "Main">>

ServerInit ==
  [ regions |-> << [id |-> 1, slug |-> North, locations |-> <<[k |-> Pool, v |-> MainSt]>>],
                   [id |-> 2, slug |-> South, locations |-> <<[k |-> Pool, v |-> MainSt]>>] >>,
    managers |-> << [id |-> 1, name |-> <<"Ann">>, email |-> <<"ann@x">>] >>,
    assigned |-> {<<1, 1>>},
    lifeguards |-> << [id |-> 1, name |-> <<"Lee">>, phone |-> <<"555">>, region_id |-> 1] >>,
    incidents |-> << [id |-> 1, group_id |-> 1, person_involved_name |-> <<"Jane">>,
                      date_of_incident |-> 2, region_id |-> 1, state |-> "done"],
                     [id |-> 2, group_id |-> 1, person_involved_name |-> <<"Jane">>,
                      date_of_incident |-> 1, region_id |-> 1, state |-> "open"] >>,
    nextId |-> 3 ]

Ids(coll) == {coll[i].id : i \in 1..Len(coll)}
ById(coll, id) == coll[CHOOSE i \in 1..Len(coll) : coll[i].id = id]
WithoutId(coll, id) == SelectSeq(coll, LAMBDA e : e.id # id)
ReplaceById(coll, id, e) == [i \in 1..Len(coll) |-> IF coll[i].id = id THEN e ELSE coll[i]]

\* response shapes
RegionRead(srv, r) ==
  [id |-> r.id, slug |-> r.slug, locations |-> r.locations,
   managers |-> {p[2] : p \in {q \in srv.assigned : q[1] = r.id}}]
ManagerRead(srv, m) ==
  [id |-> m.id, name |-> m.name, email |-> m.email,
   regions |-> {p[1] : p \in {q \in srv.assigned : q[2] = m.id}}]

listRegions(srv) == [i \in 1..Len(srv.regions) |-> RegionRead(srv, srv.regions[i])]
listManagers(srv) == [i \in 1..Len(srv.managers) |-> ManagerRead(srv, srv.managers[i])]
listLifeguards(srv) == srv.lifeguards
listIncidents(srv) == srv.incidents

List(srv, call) ==
  CASE call = "listRegions" -> listRegions(srv)
    [] call = "listManagers" -> listManagers(srv)
    [] call = "listLifeguards" -> listLifeguards(srv)
    [] call = "listIncidents" -> listIncidents(srv)

\* error messages request() throws
Status500 == "Request failed with status 500"
NotFound == "not found"
SlugExists == "slug exists"
NotADict == "value is not a valid dict"

Ok(srv, res) == [server |-> srv, phase |-> "ok", res |-> res, message |-> Null]
Fail(msg) == [server |-> server, phase |-> "fail", res |-> <<>>, message |-> msg]

SlugTaken(srv, slug, exceptId) ==
  \E i \in 1..Len(srv.regions) :
    srv.regions[i].slug = slug /\ srv.regions[i].id # exceptId

\* POST /regions/
srvCreateRegion(req) ==
  IF req.locations.type # "object" THEN Fail(NotADict)
  ELSE IF SlugTaken(server, req.slug, NoId) THEN Fail(SlugExists)
  ELSE LET r == [id |-> server.nextId, slug |-> req.slug, locations |-> req.locations.obj]
           srv == [server EXCEPT !.regions = Append(@, r), !.nextId = @ + 1]
       IN Ok(srv, RegionRead(srv, r))

\* PUT /regions/{id}
srvUpdateRegion(req) ==
  IF req.id \notin Ids(server.regions) THEN Fail(NotFound)
  ELSE IF req.locations.type # "object" THEN Fail(NotADict)
  ELSE IF SlugTaken(server, req.slug, req.id) THEN Fail(SlugExists)
  ELSE LET r == [id |-> req.id, slug |-> req.slug, locations |-> req.locations.obj]
           srv == [server EXCEPT !.regions = ReplaceById(@, req.id, r)]
       IN Ok(srv, RegionRead(srv, r))

\* PATCH /regions/{id}/update-locations
srvUpdateRegionLocations(req) ==
  IF req.id \notin Ids(server.regions) THEN Fail(NotFound)
  ELSE IF req.locations.type # "object" THEN Fail(NotADict)
  ELSE LET r == [ById(server.regions, req.id) EXCEPT !.locations = req.locations.obj]
           srv == [server EXCEPT !.regions = ReplaceById(@, req.id, r)]
       IN Ok(srv, RegionRead(srv, r))

\* DELETE /regions/{id}
srvDeleteRegion(req) ==
  IF req.id \notin Ids(server.regions) THEN Fail(NotFound)
  ELSE Ok([server EXCEPT !.regions = WithoutId(@, req.id),
                         !.assigned = {p \in @ : p[1] # req.id}], <<>>)

\* POST /regions/{region_id}/managers/{manager_id}
srvAssign(req) ==
  IF req.region \notin Ids(server.regions) \/ req.manager \notin Ids(server.managers)
  THEN Fail(NotFound)
  ELSE LET srv == [server EXCEPT !.assigned = @ \cup {<<req.region, req.manager>>}]
       IN Ok(srv, RegionRead(srv, ById(srv.regions, req.region)))

\* DELETE /regions/{region_id}/managers/{manager_id}
srvUnassign(req) ==
  IF req.region \notin Ids(server.regions) \/ req.manager \notin Ids(server.managers)
  THEN Fail(NotFound)
  ELSE LET srv == [server EXCEPT !.assigned = @ \ {<<req.region, req.manager>>}]
       IN Ok(srv, RegionRead(srv, ById(srv.regions, req.region)))

\* POST /managers/: the regions named by region_slugs are assigned
srvCreateManager(req) ==
  LET m == [id |-> server.nextId, name |-> req.name, email |-> req.email]
      rs == {r \in Range(server.regions) : r.slug \in Range(req.region_slugs)}
      srv == [server EXCEPT !.managers = Append(@, m), !.nextId = @ + 1,
                            !.assigned = @ \cup {<<r.id, m.id>> : r \in rs}]
  IN Ok(srv, ManagerRead(srv, m))

\* PUT /managers/{id}
srvUpdateManager(req) ==
  IF req.id \notin Ids(server.managers) THEN Fail(NotFound)
  ELSE LET m == [id |-> req.id, name |-> req.name, email |-> req.email]
           srv == [server EXCEPT !.managers = ReplaceById(@, req.id, m)]
       IN Ok(srv, ManagerRead(srv, m))

\* DELETE /managers/{id}
srvDeleteManager(req) ==
  IF req.id \notin Ids(server.managers) THEN Fail(NotFound)
  ELSE Ok([server EXCEPT !.managers = WithoutId(@, req.id),
                         !.assigned = {p \in @ : p[2] # req.id}], <<>>)

\* POST /lifeguards/
srvCreateLifeguard(req) ==
  LET g == [id |-> server.nextId, name |-> req.name, phone |-> req.phone,
            region_id |-> req.region_id]
  IN Ok([server EXCEPT !.lifeguards = Append(@, g), !.nextId = @ + 1], g)

\* PUT /lifeguards/{id}
srvUpdateLifeguard(req) ==
  IF req.id \notin Ids(server.lifeguards) THEN Fail(NotFound)
  ELSE LET g == [id |-> req.id, name |-> req.name, phone |-> req.phone,
                 region_id |-> req.region_id]
       IN Ok([server EXCEPT !.lifeguards = ReplaceById(@, req.id, g)], g)

\* DELETE /lifeguards/{id}
srvDeleteLifeguard(req) ==
  IF req.id \notin Ids(server.lifeguards) THEN Fail(NotFound)
  ELSE Ok([server EXCEPT !.lifeguards = WithoutId(@, req.id)], <<>>)

\* DELETE /incident/{id}
srvDeleteIncident(req) ==
  IF req.id \notin Ids(server.incidents) THEN Fail(NotFound)
  ELSE Ok([server EXCEPT !.incidents = WithoutId(@, req.id)], <<>>)

\* what the back end does with a call that is not a list
Handle(call) ==
  CASE call.kind = "createRegion" -> srvCreateRegion(call.req)
    [] call.kind = "updateRegion" -> srvUpdateRegion(call.req)
    [] call.kind = "updateRegionLocations" -> srvUpdateRegionLocations(call.req)
    [] call.kind = "deleteRegion" -> srvDeleteRegion(call.req)
    [] call.kind = "assignManagerToRegion" -> srvAssign(call.req)
    [] call.kind = "unassignManagerFromRegion" -> srvUnassign(call.req)
    [] call.kind = "createManager" -> srvCreateManager(call.req)
    [] call.kind = "updateManager" -> srvUpdateManager(call.req)
    [] call.kind = "deleteManager" -> srvDeleteManager(call.req)
    [] call.kind = "createLifeguard" -> srvCreateLifeguard(call.req)
    [] call.kind = "updateLifeguard" -> srvUpdateLifeguard(call.req)
    [] call.kind = "deleteLifeguard" -> srvDeleteLifeguard(call.req)
    [] call.kind = "deleteIncident" -> srvDeleteIncident(call.req)

(***************************************************************************)
(* Calls in flight.  A fetch cycle is one call of kind "fetch": the list   *)
(* requests of its Promise.all, each answered on its own.                  *)
(***************************************************************************)
Call(comp, kind, req) ==
  [comp |-> comp, kind |-> kind, phase |-> "sent", req |-> req, res |-> <<>>,
   message |-> Null, explicit |-> FALSE]

FetchCall(comp, calls, explicit) ==
  [comp |-> comp, kind |-> "fetch", phase |-> "sent", req |-> calls,
   res |-> [k \in 1..Len(calls) |-> [st |-> "sent", data |-> <<>>, message |-> Null]],
   message |-> Null, explicit |-> explicit]

\* Promise.all: rejected once one request has failed, resolved once all are answered
Rejected(call) == \E k \in 1..Len(call.res) : call.res[k].st = "fail"
Resolved(call) == \A k \in 1..Len(call.res) : call.res[k].st = "ok"
Settled(call) ==
  IF call.kind = "fetch" THEN Rejected(call) \/ Resolved(call)
  ELSE call.phase \in {"ok", "fail"}
Reason(call) == call.res[CHOOSE k \in 1..Len(call.res) : call.res[k].st = "fail"].message

Drop(n, i) == [j \in (DOMAIN n) \ {i} |-> n[j]]
Add(n, i, call) == [j \in (DOMAIN n) \cup {i} |-> IF j = i THEN call ELSE n[j]]

InFlight(comp, kinds) == {i \in DOMAIN net : net[i].comp = comp /\ net[i].kind \in kinds}

\* the list requests of each list's fetch cycle
FetchCalls(comp) ==
  CASE comp = "RegionList" -> <<"listRegions", "listManagers">>
    [] comp = "ManagerList" -> <<"listManagers", "listRegions">>
    [] comp = "LifeguardList" -> <<"listLifeguards", "listRegions">>
    [] comp = "IncidentList" -> <<"listIncidents", "listRegions">>
    [] comp = "LegacyRegionList" -> <<"listRegions">>

\* the back end answers a call that is not a list: as its handler says, or not at all
\* (the request fails in transport)
Serve(i) ==
  /\ i \in DOMAIN net
  /\ net[i].kind # "fetch"
  /\ net[i].phase = "sent"
  /\ LET Answer(out) ==
           /\ server' = out.server
           /\ net' = [net EXCEPT ![i].phase = out.phase, ![i].res = out.res,
                                  ![i].message = out.message]
     IN Answer(Handle(net[i])) \/ Answer(Fail(Status500))
  /\ UNCHANGED <<screen, budget, refreshSignal, ui, issued, mutations, inputs, declined>>

\* the back end answers one list request of a fetch cycle
ServeList(i, k) ==
  /\ i \in DOMAIN net
  /\ net[i].kind = "fetch"
  /\ k \in 1..Len(net[i].req)
  /\ net[i].res[k].st = "sent"
  /\ \/ net' = [net EXCEPT ![i].res[k] = [st |-> "ok", data |-> List(server, net[i].req[k]),
                                           message |-> Null]]
     \/ net' = [net EXCEPT ![i].res[k] = [st |-> "fail", data |-> <<>>, message |-> Status500]]
  /\ UNCHANGED <<screen, budget, refreshSignal, ui, server, issued, mutations, inputs, declined>>

(***************************************************************************)
(* How a handler ends.                                                     *)
(***************************************************************************)
\* fetchData up to its await: setLoading(true); setError(null)
fetchData(s) == [s EXCEPT !.loading = TRUE, !.error = Null]

\* a handler that only sets state
Stay(comp, s1) ==
  /\ ui' = [ui EXCEPT ![comp] = s1]
  /\ UNCHANGED <<screen, budget, refreshSignal, server, net, issued, mutations, inputs, declined>>

\* window.confirm has returned false: the handler returns
Decline ==
  /\ declined < MaxDeclined
  /\ declined' = declined + 1
  /\ UNCHANGED <<screen, budget, refreshSignal, ui, server, net, issued, mutations, inputs>>

\* the user changes a field of a form (an onChange handler, a row added or removed)
Type(comp, s1) ==
  /\ inputs < MaxInputs
  /\ inputs' = inputs + 1
  /\ ui' = [ui EXCEPT ![comp] = s1]
  /\ UNCHANGED <<screen, budget, refreshSignal, server, net, issued, mutations, declined>>

\* a handler that sets state and awaits a call
Send(comp, s1, kind, req) ==
  /\ mutations < budget
  /\ ui' = [ui EXCEPT ![comp] = s1]
  /\ net' = Add(net, issued + 1, Call(comp, kind, req))
  /\ issued' = issued + 1
  /\ mutations' = mutations + 1
  /\ UNCHANGED <<screen, budget, refreshSignal, server, inputs, declined>>

\* a form that is submitted: it sets state and awaits a call.  A form is submitted
\* as one of the first calls of a behaviour, or while a call of its kind that
\* its component has issued is in flight
Submit(comp, s1, kind, req) ==
  /\ mutations < MaxSubmits \/ InFlight(comp, {kind}) # {}
  /\ Send(comp, s1, kind, req)

\* a handleDataChange that counts in twos
handleDataChange_byTwo(signal) == signal + 2

\* App.handleDataChange: setRefreshSignal(prev => prev + 1)
handleDataChange(signal) == signal + 1

\* the continuation of call i ends with state s1 of comp, having called
\* onDataChange when signalled.  On the render that follows, the mounted list runs
\* the effect that calls fetchData: under useEffect(..., []) it would run after
\* every render
Done_effectOnEveryRender(i, comp, s1, signalled) ==
  LET u1 == [ui EXCEPT ![comp] = s1]
      l == Listener(screen)
  IN /\ refreshSignal' = IF signalled THEN handleDataChange(refreshSignal) ELSE refreshSignal
     /\ ui' = [u1 EXCEPT ![l] = fetchData(u1[l])]
     /\ net' = Add(Drop(net, i), issued + 1, FetchCall(l, FetchCalls(l), FALSE))
     /\ issued' = issued + 1
     /\ UNCHANGED <<screen, budget, server, mutations, inputs, declined>>

\* the continuation of call i ends with state s1 of comp, having called
\* onDataChange when signalled: App sets refreshSignal and renders, and the effect
\* of the mounted list, whose dependency is refreshSignal, calls fetchData when
\* refreshSignal has changed
Done(i, comp, s1, signalled) ==
  LET u1 == [ui EXCEPT ![comp] = s1]
      l == Listener(screen)
      signal == IF signalled THEN handleDataChange(refreshSignal) ELSE refreshSignal
      effect == signal # refreshSignal
  IN /\ refreshSignal' = signal
     /\ ui' = IF effect THEN [u1 EXCEPT ![l] = fetchData(u1[l])] ELSE u1
     /\ net' = IF effect
               THEN Add(Drop(net, i), issued + 1, FetchCall(l, FetchCalls(l), FALSE))
               ELSE Drop(net, i)
     /\ issued' = IF effect THEN issued + 1 ELSE issued
     /\ UNCHANGED <<screen, budget, server, mutations, inputs, declined>>

(***************************************************************************)
(* What the user may type.                                                 *)
(***************************************************************************)
East == <<"east">>
SlugInputs == {<<" ">>, <<"east", " ">>, North}
NameInputs == {<<" ">>, <<" ", "pool">>}
AddressInputs == {<<"x", " ">>}
BlankRow == [name |-> <<>>, address |-> <<>>]

\* the sample text the raw-JSON editors start with
sampleLocations ==
  <<LBrace, StrTok(<<"loc1">>), Colon, StrTok(<<"Main", " ", "Pool">>), Comma,
    StrTok(<<"loc2">>), Colon, StrTok(<<"West", " ", "Pool">>), RBrace>>

\* texts that are JSON objects: empty, with a key that is not trimmed, with an empty key
ObjectInputs ==
  { <<LBrace, RBrace>>,
    <<LBrace, StrTok(<<" ", "pool">>), Colon, StrTok(<<"x">>), RBrace>>,
    <<LBrace, StrTok(<<>>), Colon, StrTok(<<"x">>), RBrace>> }

\* texts that are not JSON objects: not JSON, an array, null, a number, a boolean, a string
JsonInputs ==
  { <<LBrace, StrTok(Pool), Colon>>,
    <<LBracket, StrTok(Pool), RBracket>>,
    <<NullTok>>, <<NumTok>>, <<TrueTok>>, <<StrTok(Pool)>> }

(***************************************************************************)
(* RegionList.  Two variants of the file exist: the locations of a region  *)
(* are edited as name/address rows (screen "regions") or as raw JSON text  *)
(* (screen "regionsJson"); the cells of both are in the one record, and    *)
(* the handlers that differ are modelled one by one.                       *)
(***************************************************************************)
RegionListInit ==
  [ regions |-> <<>>, allManagers |-> <<>>, loading |-> FALSE, error |-> Null,
    showCreateForm |-> FALSE, newSlug |-> <<>>, newLocations |-> <<BlankRow>>,
    newLocationsText |-> sampleLocations, creating |-> FALSE, createError |-> Null,
    editingRegionId |-> NoId, editSlug |-> <<>>, editLocations |-> <<>>,
    editLocationsText |-> <<>>, saving |-> FALSE, rowError |-> Null,
    assigningRegionId |-> NoId ]

OnRegions == screen \in {"regions", "regionsJson"}

locationsToArray(locations) ==
  [i \in 1..Len(locations) |-> [name |-> locations[i].k, address |-> locations[i].v]]

\* a conversion that keeps the address of the first of the rows of one name
RECURSIVE arrayToLocations_firstWins(_)
arrayToLocations_firstWins(entries) ==
  IF entries = <<>> THEN EmptyObject
  ELSE LET result == arrayToLocations_firstWins(Front(entries))
           entry == Last(entries)
       IN IF truthy(trim(entry.name)) /\ ~HasKey(result, trim(entry.name))
          THEN Put(result, trim(entry.name), trim(entry.address))
          ELSE result

RECURSIVE arrayToLocations(_)
arrayToLocations(entries) ==
  IF entries = <<>> THEN EmptyObject
  ELSE LET result == arrayToLocations(Front(entries))
           entry == Last(entries)
       IN IF truthy(trim(entry.name))
          THEN Put(result, trim(entry.name), trim(entry.address))
          ELSE result

\* the rows of the table are rendered when !loading && regions.length > 0
RegionList_rows ==
  IF regionList.loading THEN {} ELSE Range(regionList.regions)

\* fetchData after Promise.all has resolved
RegionList_fetchResolved(s, data) ==
  [s EXCEPT !.regions = data[1], !.allManagers = data[2], !.loading = FALSE]

\* fetchData whose catch also empties the list
RegionList_fetchRejected_clearing(s, message) ==
  [s EXCEPT !.regions = <<>>, !.error = message, !.loading = FALSE]

\* fetchData after Promise.all has rejected
RegionList_fetchRejected(s, message) ==
  [s EXCEPT !.error = message, !.loading = FALSE]

\* the continuation of a fetch cycle that leaves the state alone when a fetch
\* cycle issued after it is in flight
RegionList_fetchSettled_latestOnly(i) ==
  /\ OnRegions
  /\ i \in InFlight("RegionList", {"fetch"})
  /\ Settled(net[i])
  /\ Done(i, "RegionList",
          IF \E j \in InFlight("RegionList", {"fetch"}) : j > i
          THEN regionList
          ELSE IF Resolved(net[i])
          THEN RegionList_fetchResolved(regionList, [k \in 1..2 |-> net[i].res[k].data])
          ELSE RegionList_fetchRejected(regionList, Reason(net[i])),
          FALSE)

RegionList_fetchSettled(i) ==
  /\ OnRegions
  /\ i \in InFlight("RegionList", {"fetch"})
  /\ Settled(net[i])
  /\ Done(i, "RegionList",
          IF Resolved(net[i])
          THEN RegionList_fetchResolved(regionList, [k \in 1..2 |-> net[i].res[k].data])
          ELSE RegionList_fetchRejected(regionList, Reason(net[i])),
          FALSE)

\* the header button: setShowCreateForm(!showCreateForm)
RegionList_toggleCreateForm ==
  /\ OnRegions
  /\ Stay("RegionList", [regionList EXCEPT !.showCreateForm = ~@])

RegionList_setNewSlug(value) ==
  /\ OnRegions
  /\ regionList.showCreateForm
  /\ Type("RegionList", [regionList EXCEPT !.newSlug = value])

RegionList_addNewLocation ==
  /\ screen = "regions"
  /\ regionList.showCreateForm
  /\ Len(regionList.newLocations) < MaxRows
  /\ Type("RegionList", [regionList EXCEPT !.newLocations = Append(@, BlankRow)])

RegionList_updateNewLocation(index, field, value) ==
  /\ screen = "regions"
  /\ regionList.showCreateForm
  /\ index \in 1..Len(regionList.newLocations)
  /\ Type("RegionList", [regionList EXCEPT !.newLocations[index][field] = value])

\* the button is disabled when only one row is left
RegionList_removeNewLocation(index) ==
  /\ screen = "regions"
  /\ regionList.showCreateForm
  /\ Len(regionList.newLocations) # 1
  /\ index \in 1..Len(regionList.newLocations)
  /\ Type("RegionList", [regionList EXCEPT !.newLocations = SeqRemoveAt(@, index)])

RegionListJson_setNewLocationsText(value) ==
  /\ screen = "regionsJson"
  /\ regionList.showCreateForm
  /\ Type("RegionList", [regionList EXCEPT !.newLocationsText = value])

\* a validation that asks for the slug only
RegionList_createInvalid_slugOnly(s) ==
  IF ~truthy(trim(s.newSlug)) THEN "Slug is required" ELSE Null

\* the validation of handleCreate (row editor): the error it sets, or Null
RegionList_createInvalid(s) ==
  IF ~truthy(trim(s.newSlug)) THEN "Slug is required"
  ELSE IF Len(SelectSeq(s.newLocations, LAMBDA loc : truthy(trim(loc.name)))) = 0
       THEN "At least one location with a name is required"
  ELSE Null

RegionList_createPayload(s) ==
  [slug |-> trim(s.newSlug), locations |-> JObj(arrayToLocations(s.newLocations))]

\* a handleCreate whose submit button is never disabled
RegionList_handleCreate_reentrant ==
  /\ screen = "regions"
  /\ regionList.showCreateForm
  /\ LET s == [regionList EXCEPT !.createError = Null]
         invalid == RegionList_createInvalid(s)
     IN IF invalid # Null
        THEN Stay("RegionList", [s EXCEPT !.createError = invalid])
        ELSE Submit("RegionList", [s EXCEPT !.creating = TRUE],
                  "createRegion", RegionList_createPayload(s))

\* handleCreate (row editor) up to its await; the submit button is disabled while creating
RegionList_handleCreate ==
  /\ screen = "regions"
  /\ regionList.showCreateForm
  /\ ~regionList.creating
  /\ LET s == [regionList EXCEPT !.createError = Null]
         invalid == RegionList_createInvalid(s)
     IN IF invalid # Null
        THEN Stay("RegionList", [s EXCEPT !.createError = invalid])
        ELSE Submit("RegionList", [s EXCEPT !.creating = TRUE],
                  "createRegion", RegionList_createPayload(s))

\* the locations check of the raw-JSON editors: JSON.parse, then
\* typeof locations !== 'object' || Array.isArray(locations)
locationsJsonInvalid(text) ==
  LET p == JSONparse(text)
  IN IF ~p.ok THEN TRUE
     ELSE typeof(p.val) # "object" \/ isArray(p.val)

\* the validation of handleCreate (raw-JSON editor): the error it sets, or Null
RegionListJson_createInvalid(s) ==
  IF locationsJsonInvalid(s.newLocationsText) THEN "Invalid JSON"
  ELSE IF ~truthy(trim(s.newSlug)) THEN "Slug is required"
  ELSE Null

RegionListJson_createPayload(s) ==
  [slug |-> trim(s.newSlug), locations |-> JSONparse(s.newLocationsText).val]

\* handleCreate (raw-JSON editor) up to its await
RegionListJson_handleCreate ==
  /\ screen = "regionsJson"
  /\ regionList.showCreateForm
  /\ ~regionList.creating
  /\ LET s == [regionList EXCEPT !.createError = Null]
         invalid == RegionListJson_createInvalid(s)
     IN IF invalid # Null
        THEN Stay("RegionList", [s EXCEPT !.createError = invalid])
        ELSE Submit("RegionList", [s EXCEPT !.creating = TRUE],
                  "createRegion", RegionListJson_createPayload(s))

\* handleCreate that puts the new region first
RegionList_created_first(s, newRegion) ==
  [s EXCEPT !.regions = <<newRegion>> \o @, !.newSlug = <<>>,
            !.newLocations = <<BlankRow>>, !.newLocationsText = sampleLocations,
            !.showCreateForm = FALSE, !.creating = FALSE]

\* handleCreate after createRegion has resolved
RegionList_created(s, newRegion) ==
  [s EXCEPT !.regions = Append(@, newRegion), !.newSlug = <<>>,
            !.newLocations = <<BlankRow>>, !.newLocationsText = sampleLocations,
            !.showCreateForm = FALSE, !.creating = FALSE]

\* handleCreate whose catch also clears the slug
RegionList_createFailed_clearing(s, message) ==
  [s EXCEPT !.createError = message, !.newSlug = <<>>, !.creating = FALSE]

\* handleCreate after createRegion has rejected
RegionList_createFailed(s, message) ==
  [s EXCEPT !.createError = message, !.creating = FALSE]

RegionList_createSettled(i) ==
  /\ OnRegions
  /\ i \in InFlight("RegionList", {"createRegion"})
  /\ Settled(net[i])
  /\ IF net[i].phase = "ok"
     THEN Done(i, "RegionList", RegionList_created(regionList, net[i].res), TRUE)
     ELSE Done(i, "RegionList", RegionList_createFailed(regionList, net[i].message), FALSE)

\* a handleDelete that does not ask: it issues the call whatever the answer is
RegionList_handleDelete_unasked(id, confirmed) ==
  /\ OnRegions
  /\ \E r \in RegionList_rows : r.id = id
  /\ regionList.editingRegionId # id
  /\ Send("RegionList", regionList, "deleteRegion", [id |-> id])

\* handleDelete up to its await; Delete is offered on the rows that are not being edited
RegionList_handleDelete(id, confirmed) ==
  /\ OnRegions
  /\ \E r \in RegionList_rows : r.id = id
  /\ regionList.editingRegionId # id
  /\ IF ~confirmed
     THEN Decline
     ELSE Send("RegionList", regionList, "deleteRegion", [id |-> id])

\* a handleDelete that removes the first region of the list
RegionList_deleted_first(s, id) ==
  [s EXCEPT !.regions = IF @ = <<>> THEN @ ELSE Tail(@)]

\* handleDelete after deleteRegion has resolved
RegionList_deleted(s, id) ==
  [s EXCEPT !.regions = WithoutId(@, id)]

RegionList_deleteSettled(i) ==
  /\ OnRegions
  /\ i \in InFlight("RegionList", {"deleteRegion"})
  /\ Settled(net[i])
  /\ IF net[i].phase = "ok"
     THEN Done(i, "RegionList", RegionList_deleted(regionList, net[i].req.id), TRUE)
     ELSE Done(i, "RegionList", regionList, FALSE)

\* startEditing; Edit is offered on the rows that are not being edited
RegionList_startEditingState(s, region) ==
  [s EXCEPT !.rowError = Null,
            !.editingRegionId = region.id,
            !.editSlug = region.slug,
            !.editLocations =
               IF screen = "regions"
               THEN (IF Len(region.locations) > 0
                     THEN locationsToArray(region.locations) ELSE <<BlankRow>>)
               ELSE @,
            !.editLocationsText =
               IF screen = "regionsJson" THEN JSONstringify(region.locations) ELSE @,
            !.assigningRegionId = NoId]

RegionList_startEditing(region) ==
  /\ OnRegions
  /\ region \in RegionList_rows
  /\ regionList.editingRegionId # region.id
  /\ Stay("RegionList", RegionList_startEditingState(regionList, region))

\* a cancelEditing that leaves the row error as it is
RegionList_cancelEditingState_keepsError(s) ==
  [s EXCEPT !.editingRegionId = NoId, !.editSlug = <<>>, !.editLocations = <<>>,
            !.editLocationsText = <<>>]

RegionList_cancelEditingState(s) ==
  [s EXCEPT !.editingRegionId = NoId, !.editSlug = <<>>, !.editLocations = <<>>,
            !.editLocationsText = <<>>, !.rowError = Null]

\* the row that shows the edit fields, Save and Cancel
RegionList_editingRowShown ==
  \E r \in RegionList_rows : r.id = regionList.editingRegionId

RegionList_cancelEditing ==
  /\ OnRegions
  /\ RegionList_editingRowShown
  /\ Stay("RegionList", RegionList_cancelEditingState(regionList))

RegionList_setEditSlug(value) ==
  /\ OnRegions
  /\ RegionList_editingRowShown
  /\ Type("RegionList", [regionList EXCEPT !.editSlug = value])

RegionList_addEditLocation ==
  /\ screen = "regions"
  /\ RegionList_editingRowShown
  /\ Len(regionList.editLocations) < MaxRows
  /\ Type("RegionList", [regionList EXCEPT !.editLocations = Append(@, BlankRow)])

RegionList_updateEditLocation(index, field, value) ==
  /\ screen = "regions"
  /\ RegionList_editingRowShown
  /\ index \in 1..Len(regionList.editLocations)
  /\ Type("RegionList", [regionList EXCEPT !.editLocations[index][field] = value])

RegionList_removeEditLocation(index) ==
  /\ screen = "regions"
  /\ RegionList_editingRowShown
  /\ Len(regionList.editLocations) # 1
  /\ index \in 1..Len(regionList.editLocations)
  /\ Type("RegionList", [regionList EXCEPT !.editLocations = SeqRemoveAt(@, index)])

RegionListJson_setEditLocationsText(value) ==
  /\ screen = "regionsJson"
  /\ RegionList_editingRowShown
  /\ Type("RegionList", [regionList EXCEPT !.editLocationsText = value])

\* a validation of saveRegion that asks for the slug only
RegionList_saveInvalid_slugOnly(s) ==
  IF ~truthy(trim(s.editSlug)) THEN "Slug is required" ELSE Null

\* the validation of saveRegion (row editor): the error it sets, or Null
RegionList_saveInvalid(s) ==
  IF ~truthy(trim(s.editSlug)) THEN "Slug is required"
  ELSE IF Len(SelectSeq(s.editLocations, LAMBDA loc : truthy(trim(loc.name)))) = 0
       THEN "At least one location with a name is required"
  ELSE Null

RegionList_savePayload(s, regionId) ==
  [id |-> regionId, slug |-> trim(s.editSlug),
   locations |-> JObj(arrayToLocations(s.editLocations))]

\* saveRegion (row editor) up to its await; Save is disabled while saving
RegionList_saveRegion(regionId) ==
  /\ screen = "regions"
  /\ RegionList_editingRowShown
  /\ regionId = regionList.editingRegionId
  /\ ~regionList.saving
  /\ LET s == [regionList EXCEPT !.rowError = Null]
         invalid == RegionList_saveInvalid(s)
     IN IF invalid # Null
        THEN Stay("RegionList", [s EXCEPT !.rowError = invalid])
        ELSE Submit("RegionList", [s EXCEPT !.saving = TRUE],
                  "updateRegion", RegionList_savePayload(s, regionId))

\* the validation of saveRegion (raw-JSON editor): the error it sets, or Null
RegionListJson_saveInvalid(s) ==
  IF locationsJsonInvalid(s.editLocationsText) THEN "Invalid JSON"
  ELSE IF ~truthy(trim(s.editSlug)) THEN "Slug is required"
  ELSE Null

RegionListJson_savePayload(s, regionId) ==
  [id |-> regionId, slug |-> trim(s.editSlug),
   locations |-> JSONparse(s.editLocationsText).val]

\* saveRegion (raw-JSON editor) up to its await
RegionListJson_saveRegion(regionId) ==
  /\ screen = "regionsJson"
  /\ RegionList_editingRowShown
  /\ regionId = regionList.editingRegionId
  /\ ~regionList.saving
  /\ LET s == [regionList EXCEPT !.rowError = Null]
         invalid == RegionListJson_saveInvalid(s)
     IN IF invalid # Null
        THEN Stay("RegionList", [s EXCEPT !.rowError = invalid])
        ELSE Submit("RegionList", [s EXCEPT !.saving = TRUE],
                  "updateRegion", RegionListJson_savePayload(s, regionId))

\* a saveRegion that moves the saved region to the end of the list
RegionList_saved_last(s, regionId, updated) ==
  [RegionList_cancelEditingState(
     [s EXCEPT !.regions = Append(WithoutId(@, regionId), updated)])
   EXCEPT !.saving = FALSE]

\* a saveRegion that adds the saved region when the list does not hold it
RegionList_saved_upserting(s, regionId, updated) ==
  [RegionList_cancelEditingState(
     [s EXCEPT !.regions =
        IF regionId \in Ids(@)
        THEN [k \in 1..Len(@) |-> IF @[k].id = regionId THEN updated ELSE @[k]]
        ELSE Append(@, updated)])
   EXCEPT !.saving = FALSE]

\* saveRegion after updateRegion has resolved: the row is replaced, cancelEditing()
RegionList_saved(s, regionId, updated) ==
  [RegionList_cancelEditingState(
     [s EXCEPT !.regions = [k \in 1..Len(@) |-> IF @[k].id = regionId THEN updated ELSE @[k]]])
   EXCEPT !.saving = FALSE]

\* saveRegion after updateRegion has rejected
RegionList_saveFailed(s, message) ==
  [s EXCEPT !.rowError = message, !.saving = FALSE]

RegionList_saveSettled(i) ==
  /\ OnRegions
  /\ i \in InFlight("RegionList", {"updateRegion"})
  /\ Settled(net[i])
  /\ IF net[i].phase = "ok"
     THEN Done(i, "RegionList", RegionList_saved(regionList, net[i].req.id, net[i].res), TRUE)
     ELSE Done(i, "RegionList", RegionList_saveFailed(regionList, net[i].message), FALSE)

\* toggleAssigning that leaves the row editor open
RegionList_toggleAssigningState_keepsEditing(s, regionId) ==
  [s EXCEPT !.assigningRegionId = IF @ = regionId THEN NoId ELSE regionId]

\* toggleAssigning; Managers is offered on the rows that are not being edited
RegionList_toggleAssigningState(s, regionId) ==
  [s EXCEPT !.assigningRegionId = IF @ = regionId THEN NoId ELSE regionId,
            !.editingRegionId = NoId]

RegionList_toggleAssigning(regionId) ==
  /\ OnRegions
  /\ \E r \in RegionList_rows : r.id = regionId
  /\ regionList.editingRegionId # regionId
  /\ Stay("RegionList", RegionList_toggleAssigningState(regionList, regionId))

\* a choice of the call that assigns the members and unassigns the others
RegionList_toggleKind_inverted(region, manager) ==
  IF manager.id \in region.managers
  THEN "assignManagerToRegion" ELSE "unassignManagerFromRegion"

\* toggleManagerAssignment up to its await: the call is chosen by the membership
\* in the region as rendered
RegionList_toggleKind(region, manager) ==
  IF manager.id \in region.managers
  THEN "unassignManagerFromRegion" ELSE "assignManagerToRegion"

\* the checkboxes are shown on the row whose assignment panel is open
RegionList_toggleManagerAssignment(region, manager) ==
  /\ OnRegions
  /\ region \in RegionList_rows
  /\ regionList.assigningRegionId = region.id
  /\ manager \in Range(regionList.allManagers)
  /\ Send("RegionList", regionList, RegionList_toggleKind(region, manager),
          [region |-> region.id, manager |-> manager.id])

\* a toggleManagerAssignment that sets the managers of the response on every row
RegionList_toggled_everyRow(s, regionId, updated) ==
  [s EXCEPT !.regions = [k \in 1..Len(@) |-> [@[k] EXCEPT !.managers = updated.managers]]]

\* toggleManagerAssignment after the call has resolved
RegionList_toggled(s, regionId, updated) ==
  [s EXCEPT !.regions = [k \in 1..Len(@) |-> IF @[k].id = regionId THEN updated ELSE @[k]]]

RegionList_toggleSettled(i) ==
  /\ OnRegions
  /\ i \in InFlight("RegionList", {"assignManagerToRegion", "unassignManagerFromRegion"})
  /\ Settled(net[i])
  /\ IF net[i].phase = "ok"
     THEN Done(i, "RegionList", RegionList_toggled(regionList, net[i].req.region, net[i].res), TRUE)
     ELSE Done(i, "RegionList", regionList, FALSE)

(***************************************************************************)
(* ManagerList.                                                            *)
(***************************************************************************)
TextInputs == {<<" ">>, <<"Bob", " ">>}

ManagerListInit ==
  [ managers |-> <<>>, allRegions |-> <<>>, loading |-> FALSE, error |-> Null,
    showCreateForm |-> FALSE, newName |-> <<>>, newEmail |-> <<>>,
    newRegionSlugs |-> <<>>, creating |-> FALSE, createError |-> Null,
    editingManagerId |-> NoId, editName |-> <<>>, editEmail |-> <<>>,
    saving |-> FALSE, rowError |-> Null, assigningManagerId |-> NoId ]

OnManagers == screen = "managers"

ManagerList_rows ==
  IF managerList.loading THEN {} ELSE Range(managerList.managers)

ManagerList_fetchResolved(s, data) ==
  [s EXCEPT !.managers = data[1], !.allRegions = data[2], !.loading = FALSE]

ManagerList_fetchRejected(s, message) ==
  [s EXCEPT !.error = message, !.loading = FALSE]

\* fetchData after its await.  The fetch cycle toggleRegionAssignment awaits is
\* followed by onDataChange()
ManagerList_fetchSettled(i) ==
  /\ OnManagers
  /\ i \in InFlight("ManagerList", {"fetch"})
  /\ Settled(net[i])
  /\ Done(i, "ManagerList",
          IF Resolved(net[i])
          THEN ManagerList_fetchResolved(managerList, [k \in 1..2 |-> net[i].res[k].data])
          ELSE ManagerList_fetchRejected(managerList, Reason(net[i])),
          net[i].explicit)

ManagerList_toggleCreateForm ==
  /\ OnManagers
  /\ Stay("ManagerList", [managerList EXCEPT !.showCreateForm = ~@])

ManagerList_setNewName(value) ==
  /\ OnManagers
  /\ managerList.showCreateForm
  /\ Type("ManagerList", [managerList EXCEPT !.newName = value])

ManagerList_setNewEmail(value) ==
  /\ OnManagers
  /\ managerList.showCreateForm
  /\ Type("ManagerList", [managerList EXCEPT !.newEmail = value])

\* toggleNewRegion: one checkbox per region of allRegions
ManagerList_toggleNewRegion(slug) ==
  /\ OnManagers
  /\ managerList.showCreateForm
  /\ \E r \in Range(managerList.allRegions) : r.slug = slug
  /\ Type("ManagerList",
          [managerList EXCEPT !.newRegionSlugs =
             IF slug \in Range(@) THEN SelectSeq(@, LAMBDA x : x # slug)
             ELSE Append(@, slug)])

ManagerList_createPayload(s) ==
  [name |-> trim(s.newName), email |-> trim(s.newEmail), region_slugs |-> s.newRegionSlugs]

\* a validation that does not ask for a region
ManagerList_createInvalid_noRegion(s) ==
  IF ~truthy(trim(s.newName)) THEN "Name is required"
  ELSE IF ~truthy(trim(s.newEmail)) THEN "Email is required"
  ELSE Null

\* the validation of handleCreate: the error it sets, or Null
ManagerList_createInvalid(s) ==
  IF ~truthy(trim(s.newName)) THEN "Name is required"
  ELSE IF ~truthy(trim(s.newEmail)) THEN "Email is required"
  ELSE IF Len(s.newRegionSlugs) = 0 THEN "At least one region must be selected"
  ELSE Null

\* handleCreate up to its await; the submit button is disabled while creating
\* and while allRegions is empty
ManagerList_handleCreate ==
  /\ OnManagers
  /\ managerList.showCreateForm
  /\ ~managerList.creating
  /\ Len(managerList.allRegions) # 0
  /\ LET s == [managerList EXCEPT !.createError = Null]
         invalid == ManagerList_createInvalid(s)
     IN IF invalid # Null
        THEN Stay("ManagerList", [s EXCEPT !.createError = invalid])
        ELSE Submit("ManagerList", [s EXCEPT !.creating = TRUE],
                  "createManager", ManagerList_createPayload(s))

ManagerList_created(s, newManager) ==
  [s EXCEPT !.managers = Append(@, newManager), !.newName = <<>>, !.newEmail = <<>>,
            !.newRegionSlugs = <<>>, !.showCreateForm = FALSE, !.creating = FALSE]

ManagerList_createFailed(s, message) ==
  [s EXCEPT !.createError = message, !.creating = FALSE]

ManagerList_createSettled(i) ==
  /\ OnManagers
  /\ i \in InFlight("ManagerList", {"createManager"})
  /\ Settled(net[i])
  /\ IF net[i].phase = "ok"
     THEN Done(i, "ManagerList", ManagerList_created(managerList, net[i].res), TRUE)
     ELSE Done(i, "ManagerList", ManagerList_createFailed(managerList, net[i].message), FALSE)

ManagerList_handleDelete(id, confirmed) ==
  /\ OnManagers
  /\ \E m \in ManagerList_rows : m.id = id
  /\ managerList.editingManagerId # id
  /\ IF ~confirmed
     THEN Decline
     ELSE Send("ManagerList", managerList, "deleteManager", [id |-> id])

ManagerList_deleted(s, id) ==
  [s EXCEPT !.managers = WithoutId(@, id)]

ManagerList_deleteSettled(i) ==
  /\ OnManagers
  /\ i \in InFlight("ManagerList", {"deleteManager"})
  /\ Settled(net[i])
  /\ IF net[i].phase = "ok"
     THEN Done(i, "ManagerList", ManagerList_deleted(managerList, net[i].req.id), TRUE)
     ELSE Done(i, "ManagerList", managerList, FALSE)

ManagerList_startEditingState(s, manager) ==
  [s EXCEPT !.rowError = Null, !.editingManagerId = manager.id,
            !.editName = manager.name, !.editEmail = manager.email,
            !.assigningManagerId = NoId]

ManagerList_startEditing(manager) ==
  /\ OnManagers
  /\ manager \in ManagerList_rows
  /\ managerList.editingManagerId # manager.id
  /\ Stay("ManagerList", ManagerList_startEditingState(managerList, manager))

ManagerList_cancelEditingState(s) ==
  [s EXCEPT !.editingManagerId = NoId, !.editName = <<>>, !.editEmail = <<>>,
            !.rowError = Null]

ManagerList_editingRowShown ==
  \E m \in ManagerList_rows : m.id = managerList.editingManagerId

ManagerList_cancelEditing ==
  /\ OnManagers
  /\ ManagerList_editingRowShown
  /\ Stay("ManagerList", ManagerList_cancelEditingState(managerList))

ManagerList_setEditName(value) ==
  /\ OnManagers
  /\ ManagerList_editingRowShown
  /\ Type("ManagerList", [managerList EXCEPT !.editName = value])

ManagerList_setEditEmail(value) ==
  /\ OnManagers
  /\ ManagerList_editingRowShown
  /\ Type("ManagerList", [managerList EXCEPT !.editEmail = value])

ManagerList_saveInvalid(s) ==
  IF ~truthy(trim(s.editName)) THEN "Name is required"
  ELSE IF ~truthy(trim(s.editEmail)) THEN "Email is required"
  ELSE Null

ManagerList_saveManager(managerId) ==
  /\ OnManagers
  /\ ManagerList_editingRowShown
  /\ managerId = managerList.editingManagerId
  /\ ~managerList.saving
  /\ LET s == [managerList EXCEPT !.rowError = Null]
         invalid == ManagerList_saveInvalid(s)
     IN IF invalid # Null
        THEN Stay("ManagerList", [s EXCEPT !.rowError = invalid])
        ELSE Submit("ManagerList", [s EXCEPT !.saving = TRUE], "updateManager",
                  [id |-> managerId, name |-> trim(s.editName), email |-> trim(s.editEmail)])

ManagerList_saved(s, managerId, updated) ==
  [ManagerList_cancelEditingState(
     [s EXCEPT !.managers = [k \in 1..Len(@) |-> IF @[k].id = managerId THEN updated ELSE @[k]]])
   EXCEPT !.saving = FALSE]

ManagerList_saveFailed(s, message) ==
  [s EXCEPT !.rowError = message, !.saving = FALSE]

ManagerList_saveSettled(i) ==
  /\ OnManagers
  /\ i \in InFlight("ManagerList", {"updateManager"})
  /\ Settled(net[i])
  /\ IF net[i].phase = "ok"
     THEN Done(i, "ManagerList", ManagerList_saved(managerList, net[i].req.id, net[i].res), TRUE)
     ELSE Done(i, "ManagerList", ManagerList_saveFailed(managerList, net[i].message), FALSE)

ManagerList_toggleAssigningState(s, managerId) ==
  [s EXCEPT !.assigningManagerId = IF @ = managerId THEN NoId ELSE managerId,
            !.editingManagerId = NoId]

ManagerList_toggleAssigning(managerId) ==
  /\ OnManagers
  /\ \E m \in ManagerList_rows : m.id = managerId
  /\ managerList.editingManagerId # managerId
  /\ Stay("ManagerList", ManagerList_toggleAssigningState(managerList, managerId))

\* a toggleRegionAssignment that counts the toggles of the checkbox in flight as
\* done
ManagerList_toggleKind_optimistic(manager, region) ==
  LET pending == {i \in InFlight("ManagerList", {"assignManagerToRegion",
                                                  "unassignManagerFromRegion"}) :
                    net[i].req = [region |-> region.id, manager |-> manager.id]}
  IN IF (region.id \in manager.regions) # (Cardinality(pending) % 2 = 1)
     THEN "unassignManagerFromRegion" ELSE "assignManagerToRegion"

ManagerList_toggleKind(manager, region) ==
  IF region.id \in manager.regions
  THEN "unassignManagerFromRegion" ELSE "assignManagerToRegion"

\* toggleRegionAssignment up to its first await
ManagerList_toggleRegionAssignment(manager, region) ==
  /\ OnManagers
  /\ manager \in ManagerList_rows
  /\ managerList.assigningManagerId = manager.id
  /\ region \in Range(managerList.allRegions)
  /\ Send("ManagerList", managerList, ManagerList_toggleKind(manager, region),
          [region |-> region.id, manager |-> manager.id])

\* a toggleRegionAssignment that calls onDataChange as soon as its call has resolved
ManagerList_toggleSettled_signalling(i) ==
  /\ OnManagers
  /\ i \in InFlight("ManagerList", {"assignManagerToRegion", "unassignManagerFromRegion"})
  /\ Settled(net[i])
  /\ Done(i, "ManagerList", managerList, net[i].phase = "ok")

\* toggleRegionAssignment after the call: await fetchData() when it resolved, an
\* alert when it rejected
ManagerList_toggleSettled(i) ==
  /\ OnManagers
  /\ i \in InFlight("ManagerList", {"assignManagerToRegion", "unassignManagerFromRegion"})
  /\ Settled(net[i])
  /\ refreshSignal' = refreshSignal
  /\ IF net[i].phase = "ok"
     THEN /\ ui' = [ui EXCEPT !.ManagerList = fetchData(@)]
          /\ net' = Add(Drop(net, i), issued + 1,
                        FetchCall("ManagerList", FetchCalls("ManagerList"), TRUE))
          /\ issued' = issued + 1
     ELSE /\ ui' = ui
          /\ net' = Drop(net, i)
          /\ issued' = issued
  /\ UNCHANGED <<screen, budget, server, mutations, inputs, declined>>

(***************************************************************************)
(* LifeguardList.                                                          *)
(***************************************************************************)
LifeguardListInit ==
  [ lifeguards |-> <<>>, allRegions |-> <<>>, loading |-> FALSE, error |-> Null,
    showCreateForm |-> FALSE, newName |-> <<>>, newPhone |-> <<>>, newRegionId |-> NoId,
    creating |-> FALSE, createError |-> Null,
    editingLifeguardId |-> NoId, editName |-> <<>>, editPhone |-> <<>>,
    editRegionId |-> NoId, saving |-> FALSE, rowError |-> Null ]

OnLifeguards == screen = "lifeguards"

LifeguardList_rows ==
  IF lifeguardList.loading THEN {} ELSE Range(lifeguardList.lifeguards)

\* the options of the region <select>: "" and the regions of allRegions
LifeguardList_regionOptions == {NoId} \cup Ids(lifeguardList.allRegions)

LifeguardList_fetchResolved(s, data) ==
  [s EXCEPT !.lifeguards = data[1], !.allRegions = data[2], !.loading = FALSE]

LifeguardList_fetchRejected(s, message) ==
  [s EXCEPT !.error = message, !.loading = FALSE]

LifeguardList_fetchSettled(i) ==
  /\ OnLifeguards
  /\ i \in InFlight("LifeguardList", {"fetch"})
  /\ Settled(net[i])
  /\ Done(i, "LifeguardList",
          IF Resolved(net[i])
          THEN LifeguardList_fetchResolved(lifeguardList, [k \in 1..2 |-> net[i].res[k].data])
          ELSE LifeguardList_fetchRejected(lifeguardList, Reason(net[i])),
          FALSE)

LifeguardList_toggleCreateForm ==
  /\ OnLifeguards
  /\ Stay("LifeguardList", [lifeguardList EXCEPT !.showCreateForm = ~@])

LifeguardList_setNewName(value) ==
  /\ OnLifeguards
  /\ lifeguardList.showCreateForm
  /\ Type("LifeguardList", [lifeguardList EXCEPT !.newName = value])

LifeguardList_setNewPhone(value) ==
  /\ OnLifeguards
  /\ lifeguardList.showCreateForm
  /\ Type("LifeguardList", [lifeguardList EXCEPT !.newPhone = value])

LifeguardList_setNewRegionId(value) ==
  /\ OnLifeguards
  /\ lifeguardList.showCreateForm
  /\ value \in LifeguardList_regionOptions
  /\ Type("LifeguardList", [lifeguardList EXCEPT !.newRegionId = value])

LifeguardList_createInvalid(s) ==
  IF ~truthy(trim(s.newName)) THEN "Name is required"
  ELSE IF ~truthy(trim(s.newPhone)) THEN "Phone is required"
  ELSE IF s.newRegionId = NoId THEN "Please select a region"
  ELSE Null

LifeguardList_createPayload(s) ==
  [name |-> trim(s.newName), phone |-> trim(s.newPhone), region_id |-> s.newRegionId]

LifeguardList_handleCreate ==
  /\ OnLifeguards
  /\ lifeguardList.showCreateForm
  /\ ~lifeguardList.creating
  /\ LET s == [lifeguardList EXCEPT !.createError = Null]
         invalid == LifeguardList_createInvalid(s)
     IN IF invalid # Null
        THEN Stay("LifeguardList", [s EXCEPT !.createError = invalid])
        ELSE Submit("LifeguardList", [s EXCEPT !.creating = TRUE],
                  "createLifeguard", LifeguardList_createPayload(s))

LifeguardList_created(s, newLifeguard) ==
  [s EXCEPT !.lifeguards = Append(@, newLifeguard), !.newName = <<>>, !.newPhone = <<>>,
            !.newRegionId = NoId, !.showCreateForm = FALSE, !.creating = FALSE]

LifeguardList_createFailed(s, message) ==
  [s EXCEPT !.createError = message, !.creating = FALSE]

LifeguardList_createSettled(i) ==
  /\ OnLifeguards
  /\ i \in InFlight("LifeguardList", {"createLifeguard"})
  /\ Settled(net[i])
  /\ IF net[i].phase = "ok"
     THEN Done(i, "LifeguardList", LifeguardList_created(lifeguardList, net[i].res), TRUE)
     ELSE Done(i, "LifeguardList", LifeguardList_createFailed(lifeguardList, net[i].message), FALSE)

LifeguardList_handleDelete(id, confirmed) ==
  /\ OnLifeguards
  /\ \E g \in LifeguardList_rows : g.id = id
  /\ lifeguardList.editingLifeguardId # id
  /\ IF ~confirmed
     THEN Decline
     ELSE Send("LifeguardList", lifeguardList, "deleteLifeguard", [id |-> id])

LifeguardList_deleted(s, id) ==
  [s EXCEPT !.lifeguards = WithoutId(@, id)]

LifeguardList_deleteSettled(i) ==
  /\ OnLifeguards
  /\ i \in InFlight("LifeguardList", {"deleteLifeguard"})
  /\ Settled(net[i])
  /\ IF net[i].phase = "ok"
     THEN Done(i, "LifeguardList", LifeguardList_deleted(lifeguardList, net[i].req.id), TRUE)
     ELSE Done(i, "LifeguardList", lifeguardList, FALSE)

LifeguardList_startEditingState(s, lifeguard) ==
  [s EXCEPT !.rowError = Null, !.editingLifeguardId = lifeguard.id,
            !.editName = lifeguard.name, !.editPhone = lifeguard.phone,
            !.editRegionId = lifeguard.region_id]

LifeguardList_startEditing(lifeguard) ==
  /\ OnLifeguards
  /\ lifeguard \in LifeguardList_rows
  /\ lifeguardList.editingLifeguardId # lifeguard.id
  /\ Stay("LifeguardList", LifeguardList_startEditingState(lifeguardList, lifeguard))

LifeguardList_cancelEditingState(s) ==
  [s EXCEPT !.editingLifeguardId = NoId, !.editName = <<>>, !.editPhone = <<>>,
            !.editRegionId = NoId, !.rowError = Null]

LifeguardList_editingRowShown ==
  \E g \in LifeguardList_rows : g.id = lifeguardList.editingLifeguardId

LifeguardList_cancelEditing ==
  /\ OnLifeguards
  /\ LifeguardList_editingRowShown
  /\ Stay("LifeguardList", LifeguardList_cancelEditingState(lifeguardList))

LifeguardList_setEditName(value) ==
  /\ OnLifeguards
  /\ LifeguardList_editingRowShown
  /\ Type("LifeguardList", [lifeguardList EXCEPT !.editName = value])

LifeguardList_setEditPhone(value) ==
  /\ OnLifeguards
  /\ LifeguardList_editingRowShown
  /\ Type("LifeguardList", [lifeguardList EXCEPT !.editPhone = value])

LifeguardList_setEditRegionId(value) ==
  /\ OnLifeguards
  /\ LifeguardList_editingRowShown
  /\ value \in LifeguardList_regionOptions
  /\ Type("LifeguardList", [lifeguardList EXCEPT !.editRegionId = value])

LifeguardList_saveInvalid(s) ==
  IF ~truthy(trim(s.editName)) THEN "Name is required"
  ELSE IF ~truthy(trim(s.editPhone)) THEN "Phone is required"
  ELSE IF s.editRegionId = NoId THEN "Please select a region"
  ELSE Null

LifeguardList_saveLifeguard(lifeguardId) ==
  /\ OnLifeguards
  /\ LifeguardList_editingRowShown
  /\ lifeguardId = lifeguardList.editingLifeguardId
  /\ ~lifeguardList.saving
  /\ LET s == [lifeguardList EXCEPT !.rowError = Null]
         invalid == LifeguardList_saveInvalid(s)
     IN IF invalid # Null
        THEN Stay("LifeguardList", [s EXCEPT !.rowError = invalid])
        ELSE Submit("LifeguardList", [s EXCEPT !.saving = TRUE], "updateLifeguard",
                  [id |-> lifeguardId, name |-> trim(s.editName),
                   phone |-> trim(s.editPhone), region_id |-> s.editRegionId])

LifeguardList_saved(s, lifeguardId, updated) ==
  [LifeguardList_cancelEditingState(
     [s EXCEPT !.lifeguards = [k \in 1..Len(@) |-> IF @[k].id = lifeguardId THEN updated ELSE @[k]]])
   EXCEPT !.saving = FALSE]

LifeguardList_saveFailed(s, message) ==
  [s EXCEPT !.rowError = message, !.saving = FALSE]

LifeguardList_saveSettled(i) ==
  /\ OnLifeguards
  /\ i \in InFlight("LifeguardList", {"updateLifeguard"})
  /\ Settled(net[i])
  /\ IF net[i].phase = "ok"
     THEN Done(i, "LifeguardList", LifeguardList_saved(lifeguardList, net[i].req.id, net[i].res), TRUE)
     ELSE Done(i, "LifeguardList", LifeguardList_saveFailed(lifeguardList, net[i].message), FALSE)

(***************************************************************************)
(* IncidentList.                                                           *)
(***************************************************************************)
IncidentListInit ==
  [ incidents |-> <<>>, allRegions |-> <<>>, loading |-> FALSE, error |-> Null,
    searchName |-> <<>>, filterDate |-> NoId, filterRegion |-> NoId,
    filterStatus |-> "all", expandedGroups |-> {} ]

OnIncidents == screen = "incidents"

IncidentList_fetchResolved(s, data) ==
  [s EXCEPT !.incidents = data[1], !.allRegions = data[2], !.loading = FALSE]

IncidentList_fetchRejected(s, message) ==
  [s EXCEPT !.error = message, !.loading = FALSE]

IncidentList_fetchSettled(i) ==
  /\ OnIncidents
  /\ i \in InFlight("IncidentList", {"fetch"})
  /\ Settled(net[i])
  /\ Done(i, "IncidentList",
          IF Resolved(net[i])
          THEN IncidentList_fetchResolved(incidentList, [k \in 1..2 |-> net[i].res[k].data])
          ELSE IncidentList_fetchRejected(incidentList, Reason(net[i])),
          FALSE)

\* String.prototype.toLowerCase on the letters used here
Lower(c) ==
  CASE c = "J" -> "j"
    [] c = "O" -> "o"
    [] c = "A" -> "a"
    [] c = "L" -> "l"
    [] OTHER -> c
toLowerCase(str) == [k \in 1..Len(str) |-> Lower(str[k])]

\* String.prototype.includes
includes(str, search) ==
  \E k \in 0..(Len(str) - Len(search)) : SubSeq(str, k + 1, k + Len(search)) = search

\* new Date(date).getTime() of a date given as its day number: the milliseconds
\* of its days
getTime(date) == date * 86400000

\* Array.prototype.sort: a comes before b where compareFn gives less than 0 on
\* (a, b), and the elements that compare equal keep their order
sort(seq, compareFn) ==
  LET n == Len(seq)
      before(j, i) ==
        \/ compareFn[<<seq[j], seq[i]>>] < 0
        \/ compareFn[<<seq[j], seq[i]>>] = 0 /\ j < i
      place(i) == Cardinality({j \in 1..n : j # i /\ before(j, i)}) + 1
  IN [p \in 1..n |-> seq[CHOOSE i \in 1..n : place(i) = p]]

\* the callback of incidents.filter with 'unfinished' read as the state "open"
IncidentList_passes_openOnly(s, incident) ==
  /\ ~(truthy(s.searchName) /\
       ~includes(toLowerCase(incident.person_involved_name), toLowerCase(s.searchName)))
  /\ ~(s.filterDate # NoId /\ incident.date_of_incident # s.filterDate)
  /\ ~(s.filterRegion # NoId /\ incident.region_id # s.filterRegion)
  /\ ~(s.filterStatus = "done" /\ incident.state # "done")
  /\ ~(s.filterStatus = "unfinished" /\ incident.state # "open")

\* the callback of incidents.filter
IncidentList_passes(s, incident) ==
  /\ ~(truthy(s.searchName) /\
       ~includes(toLowerCase(incident.person_involved_name), toLowerCase(s.searchName)))
  /\ ~(s.filterDate # NoId /\ incident.date_of_incident # s.filterDate)
  /\ ~(s.filterRegion # NoId /\ incident.region_id # s.filterRegion)
  /\ ~(s.filterStatus = "done" /\ incident.state # "done")
  /\ ~(s.filterStatus = "unfinished" /\ incident.state = "done")

IncidentList_filtered(s) ==
  SelectSeq(s.incidents, LAMBDA incident : IncidentList_passes(s, incident))

\* the callback of filtered.forEach setting the entry of the group anew on every
\* incident
IncidentList_group_replacing(groupMap, incident) ==
  LET groupId == incident.group_id
  IN IF \E g \in 1..Len(groupMap) : groupMap[g].groupId = groupId
     THEN [g \in 1..Len(groupMap) |->
             IF groupMap[g].groupId = groupId
             THEN [groupMap[g] EXCEPT !.incidents = <<incident>>]
             ELSE groupMap[g]]
     ELSE Append(groupMap, [groupId |-> groupId, incidents |-> <<incident>>])

\* the callback of filtered.forEach: groupMap is the Map, its entries in
\* insertion order
IncidentList_group(groupMap, incident) ==
  LET groupId == incident.group_id
  IN IF \E g \in 1..Len(groupMap) : groupMap[g].groupId = groupId
     THEN [g \in 1..Len(groupMap) |->
             IF groupMap[g].groupId = groupId
             THEN [groupMap[g] EXCEPT !.incidents = Append(@, incident)]
             ELSE groupMap[g]]
     ELSE Append(groupMap, [groupId |-> groupId, incidents |-> <<incident>>])

RECURSIVE IncidentList_groupMap(_, _)
IncidentList_groupMap(filtered, groupMap) ==
  IF filtered = <<>> THEN groupMap
  ELSE IncidentList_groupMap(Tail(filtered), IncidentList_group(groupMap, Head(filtered)))

\* the comparator of the incidents of a group, oldest first
IncidentList_compareIncidents_ascending(a, b) ==
  getTime(a.date_of_incident) - getTime(b.date_of_incident)

\* the comparators: most recent first
IncidentList_compareIncidents(a, b) ==
  getTime(b.date_of_incident) - getTime(a.date_of_incident)
IncidentList_compareGroups(a, b) ==
  getTime(b.incidents[1].date_of_incident) - getTime(a.incidents[1].date_of_incident)

\* the comparators as sort is given them, over the elements of seq
IncidentList_byDate(seq) ==
  [p \in Range(seq) \X Range(seq) |-> IncidentList_compareIncidents(p[1], p[2])]
IncidentList_byFirstDate(seq) ==
  [p \in Range(seq) \X Range(seq) |-> IncidentList_compareGroups(p[1], p[2])]

\* the useMemo sorting the groups before the incidents of each group
IncidentList_filteredAndGroupedIncidents_groupsFirst(s) ==
  LET groupMap == IncidentList_groupMap(IncidentList_filtered(s), <<>>)
      groups == sort(groupMap, IncidentList_byFirstDate(groupMap))
  IN [g \in 1..Len(groups) |->
        [groupId |-> groups[g].groupId,
         incidents |-> sort(groups[g].incidents, IncidentList_byDate(groups[g].incidents))]]

\* what the useMemo computes from the cells s
IncidentList_filteredAndGroupedIncidents(s) ==
  LET groupMap == IncidentList_groupMap(IncidentList_filtered(s), <<>>)
      groups == [g \in 1..Len(groupMap) |->
                   [groupId |-> groupMap[g].groupId,
                    incidents |-> sort(groupMap[g].incidents, IncidentList_byDate(groupMap[g].incidents))]]
  IN sort(groups, IncidentList_byFirstDate(groups))

\* the groups are rendered when !loading
IncidentList_groups ==
  IF incidentList.loading THEN {}
  ELSE {group.groupId : group \in Range(IncidentList_filteredAndGroupedIncidents(incidentList))}

\* the filters
SearchInputs == {<<>>, <<"J", "O">>, <<"l">>}
DateInputs == {NoId, 2, 3}
StatusInputs == {"all", "done", "unfinished"}

IncidentList_setSearchName(value) ==
  /\ OnIncidents
  /\ value # incidentList.searchName
  /\ Type("IncidentList", [incidentList EXCEPT !.searchName = value])

IncidentList_setFilterDate(value) ==
  /\ OnIncidents
  /\ value # incidentList.filterDate
  /\ Type("IncidentList", [incidentList EXCEPT !.filterDate = value])

\* the options are All Regions and the regions fetched
IncidentList_setFilterRegion(value) ==
  /\ OnIncidents
  /\ value \in {NoId} \cup Ids(incidentList.allRegions)
  /\ value # incidentList.filterRegion
  /\ Type("IncidentList", [incidentList EXCEPT !.filterRegion = value])

IncidentList_setFilterStatus(value) ==
  /\ OnIncidents
  /\ value # incidentList.filterStatus
  /\ Type("IncidentList", [incidentList EXCEPT !.filterStatus = value])

IncidentList_hasActiveFilters ==
  \/ truthy(incidentList.searchName)
  \/ incidentList.filterDate # NoId
  \/ incidentList.filterRegion # NoId
  \/ incidentList.filterStatus # "all"

\* Clear Filters is offered while a filter is active
IncidentList_clearFilters ==
  /\ OnIncidents
  /\ IncidentList_hasActiveFilters
  /\ Type("IncidentList",
          [incidentList EXCEPT !.searchName = <<>>, !.filterDate = NoId,
                               !.filterRegion = NoId, !.filterStatus = "all"])

\* toggleGroup showing one group at a time
IncidentList_toggleGroupState_accordion(s, groupId) ==
  [s EXCEPT !.expandedGroups = IF groupId \in @ THEN {} ELSE {groupId}]

\* toggleGroup: the updater of setExpandedGroups
IncidentList_toggleGroupState(s, groupId) ==
  [s EXCEPT !.expandedGroups = IF groupId \in @ THEN @ \ {groupId} ELSE @ \cup {groupId}]

\* the header of a group is clicked
IncidentList_toggleGroup(groupId) ==
  /\ OnIncidents
  /\ groupId \in IncidentList_groups
  /\ Stay("IncidentList", IncidentList_toggleGroupState(incidentList, groupId))

\* handleDelete up to its await; Delete is offered on the incidents of an expanded group
IncidentList_handleDelete(id, confirmed) ==
  /\ OnIncidents
  /\ ~incidentList.loading
  /\ \E group \in Range(IncidentList_filteredAndGroupedIncidents(incidentList)) :
       /\ group.groupId \in incidentList.expandedGroups
       /\ \E inc \in Range(group.incidents) : inc.id = id
  /\ IF ~confirmed
     THEN Decline
     ELSE Send("IncidentList", incidentList, "deleteIncident", [id |-> id])

\* the update of the delete removing the whole group of the incident
IncidentList_deleted_group(s, id) ==
  [s EXCEPT !.incidents =
     SelectSeq(@, LAMBDA inc : \A other \in Range(s.incidents) :
                                 other.id = id => inc.group_id # other.group_id)]

IncidentList_deleted(s, id) ==
  [s EXCEPT !.incidents = WithoutId(@, id)]

IncidentList_deleteSettled(i) ==
  /\ OnIncidents
  /\ i \in InFlight("IncidentList", {"deleteIncident"})
  /\ Settled(net[i])
  /\ IF net[i].phase = "ok"
     THEN Done(i, "IncidentList", IncidentList_deleted(incidentList, net[i].req.id), TRUE)
     ELSE Done(i, "IncidentList", incidentList, FALSE)

(***************************************************************************)
(* RegionForm and the list it is mounted beside (screen "regionFormApp").  *)
(***************************************************************************)
RegionFormInit ==
  [ slug |-> <<>>, locationsText |-> sampleLocations, managersText |-> <<>>,
    loading |-> FALSE, error |-> Null, success |-> Null ]

OnRegionForm == screen = "regionFormApp"

RegionForm_setSlug(value) ==
  /\ OnRegionForm
  /\ Type("RegionForm", [regionForm EXCEPT !.slug = value])

RegionForm_setLocationsText(value) ==
  /\ OnRegionForm
  /\ Type("RegionForm", [regionForm EXCEPT !.locationsText = value])

\* the validation of handleSubmit: the error it sets, or Null
RegionForm_submitInvalid(s) ==
  IF locationsJsonInvalid(s.locationsText) THEN "Invalid locations JSON"
  ELSE IF ~truthy(trim(s.slug)) THEN "Slug is required"
  ELSE Null

\* managersText is left empty, so managers is []
RegionForm_payload(s) ==
  [slug |-> trim(s.slug), locations |-> JSONparse(s.locationsText).val, managers |-> <<>>]

\* handleSubmit up to its await; the submit button is disabled while loading
RegionForm_handleSubmit ==
  /\ OnRegionForm
  /\ ~regionForm.loading
  /\ LET s == [regionForm EXCEPT !.error = Null, !.success = Null]
         invalid == RegionForm_submitInvalid(s)
     IN IF invalid # Null
        THEN Stay("RegionForm", [s EXCEPT !.error = invalid])
        ELSE Submit("RegionForm", [s EXCEPT !.loading = TRUE],
                  "createRegion", RegionForm_payload(s))

RegionForm_created(s, slug) ==
  [s EXCEPT !.success = slug, !.slug = <<>>, !.managersText = <<>>,
            !.locationsText = sampleLocations, !.loading = FALSE]

RegionForm_createFailed(s, message) ==
  [s EXCEPT !.error = message, !.loading = FALSE]

\* handleSubmit after its await; onCreated is App.handleCreated, which bumps refreshSignal
RegionForm_submitSettled(i) ==
  /\ OnRegionForm
  /\ i \in InFlight("RegionForm", {"createRegion"})
  /\ Settled(net[i])
  /\ IF net[i].phase = "ok"
     THEN Done(i, "RegionForm", RegionForm_created(regionForm, net[i].req.slug), TRUE)
     ELSE Done(i, "RegionForm", RegionForm_createFailed(regionForm, net[i].message), FALSE)

LegacyRegionListInit ==
  [ regions |-> <<>>, loading |-> FALSE, error |-> Null,
    editingRegionId |-> NoId, locationsText |-> <<>>, saving |-> FALSE, rowError |-> Null ]

LegacyRegionList_rows ==
  IF legacyList.loading THEN {} ELSE Range(legacyList.regions)

LegacyRegionList_fetchResolved(s, data) ==
  [s EXCEPT !.regions = data, !.loading = FALSE]

LegacyRegionList_fetchRejected(s, message) ==
  [s EXCEPT !.error = message, !.loading = FALSE]

\* fetchRegions after its await
LegacyRegionList_fetchSettled(i) ==
  /\ OnRegionForm
  /\ i \in InFlight("LegacyRegionList", {"fetch"})
  /\ Settled(net[i])
  /\ Done(i, "LegacyRegionList",
          IF Resolved(net[i])
          THEN LegacyRegionList_fetchResolved(legacyList, net[i].res[1].data)
          ELSE LegacyRegionList_fetchRejected(legacyList, Reason(net[i])),
          FALSE)

\* handleDelete: no refresh is signalled
LegacyRegionList_handleDelete(id, confirmed) ==
  /\ OnRegionForm
  /\ \E r \in LegacyRegionList_rows : r.id = id
  /\ legacyList.editingRegionId # id
  /\ IF ~confirmed
     THEN Decline
     ELSE Send("LegacyRegionList", legacyList, "deleteRegion", [id |-> id])

LegacyRegionList_deleteSettled(i) ==
  /\ OnRegionForm
  /\ i \in InFlight("LegacyRegionList", {"deleteRegion"})
  /\ Settled(net[i])
  /\ IF net[i].phase = "ok"
     THEN Done(i, "LegacyRegionList",
               [legacyList EXCEPT !.regions = WithoutId(@, net[i].req.id)], FALSE)
     ELSE Done(i, "LegacyRegionList", legacyList, FALSE)

LegacyRegionList_startEditing(region) ==
  /\ OnRegionForm
  /\ region \in LegacyRegionList_rows
  /\ legacyList.editingRegionId # region.id
  /\ Stay("LegacyRegionList",
          [legacyList EXCEPT !.rowError = Null, !.editingRegionId = region.id,
                             !.locationsText = JSONstringify(region.locations)])

LegacyRegionList_cancelEditingState(s) ==
  [s EXCEPT !.editingRegionId = NoId, !.locationsText = <<>>, !.rowError = Null]

LegacyRegionList_editingRowShown ==
  \E r \in LegacyRegionList_rows : r.id = legacyList.editingRegionId

LegacyRegionList_cancelEditing ==
  /\ OnRegionForm
  /\ LegacyRegionList_editingRowShown
  /\ Stay("LegacyRegionList", LegacyRegionList_cancelEditingState(legacyList))

LegacyRegionList_setLocationsText(value) ==
  /\ OnRegionForm
  /\ LegacyRegionList_editingRowShown
  /\ Type("LegacyRegionList", [legacyList EXCEPT !.locationsText = value])

\* saveLocations up to its await; Save is disabled while saving
LegacyRegionList_saveLocations(regionId) ==
  /\ OnRegionForm
  /\ LegacyRegionList_editingRowShown
  /\ regionId = legacyList.editingRegionId
  /\ ~legacyList.saving
  /\ LET s == [legacyList EXCEPT !.rowError = Null]
     IN IF locationsJsonInvalid(s.locationsText)
        THEN Stay("LegacyRegionList", [s EXCEPT !.rowError = "Invalid JSON"])
        ELSE Submit("LegacyRegionList", [s EXCEPT !.saving = TRUE], "updateRegionLocations",
                  [id |-> regionId, locations |-> JSONparse(s.locationsText).val])

LegacyRegionList_saved(s, regionId, updated) ==
  [LegacyRegionList_cancelEditingState(
     [s EXCEPT !.regions = [k \in 1..Len(@) |-> IF @[k].id = regionId THEN updated ELSE @[k]]])
   EXCEPT !.saving = FALSE]

LegacyRegionList_saveFailed(s, message) ==
  [s EXCEPT !.rowError = message, !.saving = FALSE]

\* saveLocations after its await: no refresh is signalled
LegacyRegionList_saveSettled(i) ==
  /\ OnRegionForm
  /\ i \in InFlight("LegacyRegionList", {"updateRegionLocations"})
  /\ Settled(net[i])
  /\ IF net[i].phase = "ok"
     THEN Done(i, "LegacyRegionList",
               LegacyRegionList_saved(legacyList, net[i].req.id, net[i].res), FALSE)
     ELSE Done(i, "LegacyRegionList", LegacyRegionList_saveFailed(legacyList, net[i].message), FALSE)

(***************************************************************************)
(* The application after its first render: the list of the active tab is   *)
(* mounted and its useEffect has called fetchData.                         *)
(***************************************************************************)
Unmounted ==
  [ RegionList |-> RegionListInit, ManagerList |-> ManagerListInit,
    LifeguardList |-> LifeguardListInit, IncidentList |-> IncidentListInit,
    RegionForm |-> RegionFormInit, LegacyRegionList |-> LegacyRegionListInit ]

\* a screen of scrs is mounted and its list runs its mount effect; the user
\* issues at most calls calls in the behaviour
MountFor(scrs, calls) ==
  /\ screen \in scrs
  /\ refreshSignal = 0
  /\ ui = [Unmounted EXCEPT ![Listener(screen)] = fetchData(@)]
  /\ server = ServerInit
  /\ net = [j \in {1} |-> FetchCall(Listener(screen), FetchCalls(Listener(screen)), FALSE)]
  /\ issued = 1
  /\ mutations = 0
  /\ budget = calls
  /\ inputs = 0
  /\ declined = 0

Mount(scrs) == MountFor(scrs, MaxMutations)

Init == Mount(Screens)

Backend ==
  \/ \E i \in DOMAIN net : Serve(i)
  \/ \E i \in DOMAIN net, k \in 1..2 : ServeList(i, k)

Fetched ==
  \/ \E i \in DOMAIN net : RegionList_fetchSettled(i)
  \/ \E i \in DOMAIN net : ManagerList_fetchSettled(i)
  \/ \E i \in DOMAIN net : LifeguardList_fetchSettled(i)
  \/ \E i \in DOMAIN net : IncidentList_fetchSettled(i)
  \/ \E i \in DOMAIN net : LegacyRegionList_fetchSettled(i)

Confirm == BOOLEAN

RegionCreate ==
  \/ RegionList_toggleCreateForm
  \/ \E value \in SlugInputs : RegionList_setNewSlug(value)
  \/ \E value \in NameInputs : RegionList_updateNewLocation(1, "name", value)
  \/ \E value \in ObjectInputs : RegionListJson_setNewLocationsText(value)
  \/ RegionList_handleCreate
  \/ RegionListJson_handleCreate
  \/ \E i \in DOMAIN net : RegionList_createSettled(i)

RegionRows ==
  \/ \E id \in Ids(regionList.regions), confirmed \in Confirm :
       RegionList_handleDelete(id, confirmed)
  \/ \E i \in DOMAIN net : RegionList_deleteSettled(i)
  \/ \E region \in Range(regionList.regions) : RegionList_startEditing(region)
  \/ RegionList_cancelEditing
  \/ \E regionId \in Ids(regionList.regions) : RegionList_toggleAssigning(regionId)
  \/ \E region \in Range(regionList.regions), manager \in Range(regionList.allManagers) :
       RegionList_toggleManagerAssignment(region, manager)
  \/ \E i \in DOMAIN net : RegionList_toggleSettled(i)

RegionLocations ==
  \/ RegionList_toggleCreateForm
  \/ RegionList_setNewSlug(East)
  \/ RegionList_addNewLocation
  \/ \E index \in 1..MaxRows, value \in NameInputs :
       RegionList_updateNewLocation(index, "name", value)
  \/ \E index \in 1..MaxRows, value \in AddressInputs :
       RegionList_updateNewLocation(index, "address", value)
  \/ \E index \in 1..MaxRows : RegionList_removeNewLocation(index)
  \/ \E value \in ObjectInputs : RegionListJson_setNewLocationsText(value)
  \/ RegionList_handleCreate
  \/ RegionListJson_handleCreate
  \/ \E i \in DOMAIN net : RegionList_createSettled(i)
  \/ \E region \in Range(regionList.regions) : RegionList_startEditing(region)
  \/ RegionList_cancelEditing
  \/ RegionList_addEditLocation
  \/ \E index \in 1..MaxRows, value \in NameInputs :
       RegionList_updateEditLocation(index, "name", value)
  \/ \E index \in 1..MaxRows, value \in AddressInputs :
       RegionList_updateEditLocation(index, "address", value)
  \/ \E index \in 1..MaxRows : RegionList_removeEditLocation(index)
  \/ \E value \in ObjectInputs : RegionListJson_setEditLocationsText(value)
  \/ \E regionId \in Ids(regionList.regions) : RegionList_saveRegion(regionId)
  \/ \E regionId \in Ids(regionList.regions) : RegionListJson_saveRegion(regionId)
  \/ \E i \in DOMAIN net : RegionList_saveSettled(i)

ManagerCreate ==
  \/ ManagerList_toggleCreateForm
  \/ \E value \in TextInputs : ManagerList_setNewName(value)
  \/ \E value \in TextInputs : ManagerList_setNewEmail(value)
  \/ \E slug \in {North, South} : ManagerList_toggleNewRegion(slug)
  \/ ManagerList_handleCreate
  \/ \E i \in DOMAIN net : ManagerList_createSettled(i)

ManagerRows ==
  \/ \E id \in Ids(managerList.managers), confirmed \in Confirm :
       ManagerList_handleDelete(id, confirmed)
  \/ \E i \in DOMAIN net : ManagerList_deleteSettled(i)
  \/ \E manager \in Range(managerList.managers) : ManagerList_startEditing(manager)
  \/ ManagerList_cancelEditing
  \/ \E managerId \in Ids(managerList.managers) : ManagerList_toggleAssigning(managerId)
  \/ \E manager \in Range(managerList.managers), region \in Range(managerList.allRegions) :
       ManagerList_toggleRegionAssignment(manager, region)
  \/ \E i \in DOMAIN net : ManagerList_toggleSettled(i)

ManagerSave ==
  \/ \E value \in TextInputs : ManagerList_setEditName(value)
  \/ \E value \in TextInputs : ManagerList_setEditEmail(value)
  \/ \E managerId \in Ids(managerList.managers) : ManagerList_saveManager(managerId)
  \/ \E i \in DOMAIN net : ManagerList_saveSettled(i)

LifeguardCreate ==
  \/ LifeguardList_toggleCreateForm
  \/ \E value \in TextInputs : LifeguardList_setNewName(value)
  \/ \E value \in TextInputs : LifeguardList_setNewPhone(value)
  \/ \E value \in LifeguardList_regionOptions : LifeguardList_setNewRegionId(value)
  \/ LifeguardList_handleCreate
  \/ \E i \in DOMAIN net : LifeguardList_createSettled(i)

LifeguardRows ==
  \/ \E id \in Ids(lifeguardList.lifeguards), confirmed \in Confirm :
       LifeguardList_handleDelete(id, confirmed)
  \/ \E i \in DOMAIN net : LifeguardList_deleteSettled(i)
  \/ \E lifeguard \in Range(lifeguardList.lifeguards) : LifeguardList_startEditing(lifeguard)
  \/ LifeguardList_cancelEditing

LifeguardSave ==
  \/ \E value \in TextInputs : LifeguardList_setEditName(value)
  \/ \E value \in TextInputs : LifeguardList_setEditPhone(value)
  \/ \E value \in LifeguardList_regionOptions : LifeguardList_setEditRegionId(value)
  \/ \E lifeguardId \in Ids(lifeguardList.lifeguards) : LifeguardList_saveLifeguard(lifeguardId)
  \/ \E i \in DOMAIN net : LifeguardList_saveSettled(i)

IncidentRows ==
  \/ \E groupId \in IncidentList_groups : IncidentList_toggleGroup(groupId)
  \/ \E id \in Ids(incidentList.incidents), confirmed \in Confirm :
       IncidentList_handleDelete(id, confirmed)
  \/ \E i \in DOMAIN net : IncidentList_deleteSettled(i)

FormCreate ==
  \/ \E value \in SlugInputs : RegionForm_setSlug(value)
  \/ \E value \in ObjectInputs : RegionForm_setLocationsText(value)
  \/ RegionForm_handleSubmit
  \/ \E i \in DOMAIN net : RegionForm_submitSettled(i)

LegacyRows ==
  \/ \E id \in Ids(legacyList.regions), confirmed \in Confirm :
       LegacyRegionList_handleDelete(id, confirmed)
  \/ \E i \in DOMAIN net : LegacyRegionList_deleteSettled(i)
  \/ \E region \in Range(legacyList.regions) : LegacyRegionList_startEditing(region)
  \/ LegacyRegionList_cancelEditing

\* the raw-JSON editors of the regions: the create form and the inline editor of
\* the list, RegionForm, and the inline editor of the list beside it
JsonEditors ==
  \/ RegionList_toggleCreateForm
  \/ RegionList_setNewSlug(East)
  \/ \E value \in JsonInputs : RegionListJson_setNewLocationsText(value)
  \/ RegionListJson_handleCreate
  \/ \E i \in DOMAIN net : RegionList_createSettled(i)
  \/ \E region \in Range(regionList.regions) : RegionList_startEditing(region)
  \/ RegionList_cancelEditing
  \/ \E value \in JsonInputs : RegionListJson_setEditLocationsText(value)
  \/ \E regionId \in Ids(regionList.regions) : RegionListJson_saveRegion(regionId)
  \/ \E i \in DOMAIN net : RegionList_saveSettled(i)
  \/ RegionForm_setSlug(East)
  \/ \E value \in JsonInputs : RegionForm_setLocationsText(value)
  \/ RegionForm_handleSubmit
  \/ \E i \in DOMAIN net : RegionForm_submitSettled(i)
  \/ \E region \in Range(legacyList.regions) : LegacyRegionList_startEditing(region)
  \/ LegacyRegionList_cancelEditing
  \/ \E value \in JsonInputs : LegacyRegionList_setLocationsText(value)
  \/ \E regionId \in Ids(legacyList.regions) : LegacyRegionList_saveLocations(regionId)
  \/ \E i \in DOMAIN net : LegacyRegionList_saveSettled(i)

\* every tab: the lists fetch, and the rows are deleted, edited and assigned
Next ==
  \/ Backend \/ Fetched
  \/ RegionRows \/ ManagerRows \/ LifeguardRows \/ IncidentRows \/ LegacyRows

Spec == Init /\ [][Next]_vars

\* every tab: the create forms are filled in and submitted
NextCreate ==
  \/ Backend \/ Fetched
  \/ RegionCreate \/ ManagerCreate \/ LifeguardCreate \/ FormCreate

SpecCreate == Init /\ [][NextCreate]_vars

\* the Region list, both variants: regions are created and saved
NextLocations ==
  \/ Backend
  \/ \E i \in DOMAIN net : RegionList_fetchSettled(i)
  \/ RegionLocations

SpecLocations == Mount({"regions", "regionsJson"}) /\ [][NextLocations]_vars

NextJson ==
  \/ Backend
  \/ \E i \in DOMAIN net : RegionList_fetchSettled(i)
  \/ \E i \in DOMAIN net : LegacyRegionList_fetchSettled(i)
  \/ JsonEditors

SpecJson == Mount({"regionsJson", "regionFormApp"}) /\ [][NextJson]_vars

\* the inline editors of the three tabs: rows are edited, cancelled and saved
RegionEdit ==
  \/ \E region \in Range(regionList.regions) : RegionList_startEditing(region)
  \/ RegionList_cancelEditing
  \/ \E value \in SlugInputs : RegionList_setEditSlug(value)
  \/ \E value \in NameInputs : RegionList_updateEditLocation(1, "name", value)
  \/ \E value \in ObjectInputs : RegionListJson_setEditLocationsText(value)
  \/ \E regionId \in Ids(regionList.regions) : RegionList_saveRegion(regionId)
  \/ \E regionId \in Ids(regionList.regions) : RegionListJson_saveRegion(regionId)
  \/ \E i \in DOMAIN net : RegionList_saveSettled(i)

ManagerEdit ==
  \/ \E manager \in Range(managerList.managers) : ManagerList_startEditing(manager)
  \/ ManagerList_cancelEditing
  \/ ManagerSave

LifeguardEdit ==
  \/ \E lifeguard \in Range(lifeguardList.lifeguards) : LifeguardList_startEditing(lifeguard)
  \/ LifeguardList_cancelEditing
  \/ LifeguardSave

NextEdit ==
  \/ Backend
  \/ \E i \in DOMAIN net : RegionList_fetchSettled(i)
  \/ \E i \in DOMAIN net : ManagerList_fetchSettled(i)
  \/ \E i \in DOMAIN net : LifeguardList_fetchSettled(i)
  \/ RegionEdit \/ ManagerEdit \/ LifeguardEdit

SpecEdit == Mount({"regions", "regionsJson", "managers", "lifeguards"}) /\ [][NextEdit]_vars

\* the steps that are not the user's: the back end answers a call, and the
\* continuation of a call that is settled runs
Continuations ==
  \/ Backend
  \/ \E i \in DOMAIN net : RegionList_fetchSettled(i)
  \/ \E i \in DOMAIN net : ManagerList_fetchSettled(i)
  \/ \E i \in DOMAIN net : LifeguardList_fetchSettled(i)
  \/ \E i \in DOMAIN net : IncidentList_fetchSettled(i)
  \/ \E i \in DOMAIN net : RegionList_deleteSettled(i)
  \/ \E i \in DOMAIN net : RegionList_toggleSettled(i)
  \/ \E i \in DOMAIN net : ManagerList_deleteSettled(i)
  \/ \E i \in DOMAIN net : ManagerList_toggleSettled(i)
  \/ \E i \in DOMAIN net : LifeguardList_deleteSettled(i)
  \/ \E i \in DOMAIN net : IncidentList_deleteSettled(i)

NextSettle ==
  \/ Continuations
  \/ RegionRows \/ ManagerRows \/ LifeguardRows \/ IncidentRows

\* how far the calls in flight are: every step of Continuations changes it
progress ==
  [i \in DOMAIN net |->
     <<net[i].phase,
       IF net[i].kind = "fetch"
       THEN [k \in 1..Len(net[i].req) |-> net[i].res[k].st] ELSE <<>> >>]

\* the tabs and the incident list, with a network that answers every call and an
\* event loop that runs every continuation
SpecSettle ==
  /\ Mount({"regions", "managers", "lifeguards", "incidents"})
  /\ [][NextSettle]_vars
  /\ WF_progress(Continuations)

(***************************************************************************)
(* The three tabs with every kind of mutation of their lists: an entity is *)
(* created, saved, deleted, and a relationship is toggled.  A behaviour    *)
(* either fills in a create form or operates the rows.                     *)
(***************************************************************************)
\* no create form has been opened or typed into
FormsUntouched ==
  /\ inputs = 0
  /\ ~regionList.showCreateForm
  /\ ~managerList.showCreateForm
  /\ ~lifeguardList.showCreateForm

\* no row has been operated
RowsUntouched ==
  /\ mutations = 0
  /\ declined = 0
  /\ regionList.editingRegionId = NoId /\ regionList.assigningRegionId = NoId
  /\ managerList.editingManagerId = NoId /\ managerList.assigningManagerId = NoId
  /\ lifeguardList.editingLifeguardId = NoId

CreateForms ==
  \/ RegionList_toggleCreateForm
  \/ RegionList_setNewSlug(East)
  \/ RegionList_updateNewLocation(1, "name", Pool)
  \/ ManagerList_toggleCreateForm
  \/ ManagerList_setNewName(<<"Bob", " ">>)
  \/ ManagerList_setNewEmail(<<"Bob", " ">>)
  \/ ManagerList_toggleNewRegion(North)
  \/ LifeguardList_toggleCreateForm
  \/ LifeguardList_setNewName(<<"Bob", " ">>)
  \/ LifeguardList_setNewPhone(<<"Bob", " ">>)
  \/ LifeguardList_setNewRegionId(1)

Creates ==
  \/ RegionList_handleCreate
  \/ \E i \in DOMAIN net : RegionList_createSettled(i)
  \/ ManagerList_handleCreate
  \/ \E i \in DOMAIN net : ManagerList_createSettled(i)
  \/ LifeguardList_handleCreate
  \/ \E i \in DOMAIN net : LifeguardList_createSettled(i)

Saves ==
  \/ \E regionId \in Ids(regionList.regions) : RegionList_saveRegion(regionId)
  \/ \E i \in DOMAIN net : RegionList_saveSettled(i)
  \/ \E managerId \in Ids(managerList.managers) : ManagerList_saveManager(managerId)
  \/ \E i \in DOMAIN net : ManagerList_saveSettled(i)
  \/ \E lifeguardId \in Ids(lifeguardList.lifeguards) : LifeguardList_saveLifeguard(lifeguardId)
  \/ \E i \in DOMAIN net : LifeguardList_saveSettled(i)

NextMutations ==
  \/ Backend
  \/ \E i \in DOMAIN net : RegionList_fetchSettled(i)
  \/ \E i \in DOMAIN net : ManagerList_fetchSettled(i)
  \/ \E i \in DOMAIN net : LifeguardList_fetchSettled(i)
  \/ RowsUntouched /\ CreateForms
  \/ Creates
  \/ FormsUntouched /\ (RegionRows \/ ManagerRows \/ LifeguardRows \/ Saves)

SpecMutations == Mount({"regions", "managers", "lifeguards"}) /\ [][NextMutations]_vars

\* the assignment panels of the Regions and Managers tabs, the checkboxes of the
\* Regions tab clicked up to MaxToggles times and those of the Managers tab, where
\* every toggle that succeeds starts a fetch cycle, up to MaxMutations times
NextAssign ==
  \/ Backend
  \/ \E i \in DOMAIN net : RegionList_fetchSettled(i)
  \/ \E i \in DOMAIN net : ManagerList_fetchSettled(i)
  \/ \E regionId \in Ids(regionList.regions) : RegionList_toggleAssigning(regionId)
  \/ \E region \in Range(regionList.regions), manager \in Range(regionList.allManagers) :
       RegionList_toggleManagerAssignment(region, manager)
  \/ \E i \in DOMAIN net : RegionList_toggleSettled(i)
  \/ \E managerId \in Ids(managerList.managers) : ManagerList_toggleAssigning(managerId)
  \/ \E manager \in Range(managerList.managers), region \in Range(managerList.allRegions) :
       ManagerList_toggleRegionAssignment(manager, region)
  \/ \E i \in DOMAIN net : ManagerList_toggleSettled(i)

InitAssign ==
  \/ MountFor({"regions"}, MaxToggles)
  \/ MountFor({"managers"}, MaxMutations)

SpecAssign == InitAssign /\ [][NextAssign]_vars

(***************************************************************************)
(* The incident list over the collections the back end may hold: every     *)
(* sequence of distinct incidents of the pool, up to MaxIncidents long.    *)
(* The pool has two names that differ in case only, two incidents of one   *)
(* group on the same day, and incidents of two groups on the same day.     *)
(***************************************************************************)
IncidentPool ==
  { [id |-> 1, group_id |-> 1, person_involved_name |-> <<"J", "o">>,
     date_of_incident |-> 3, region_id |-> 1, state |-> "done"],
    [id |-> 2, group_id |-> 1, person_involved_name |-> <<"j", "o">>,
     date_of_incident |-> 2, region_id |-> 1, state |-> "open"],
    [id |-> 3, group_id |-> 2, person_involved_name |-> <<"A", "l">>,
     date_of_incident |-> 2, region_id |-> 2, state |-> "done"],
    [id |-> 4, group_id |-> 2, person_involved_name |-> <<"A", "l">>,
     date_of_incident |-> 2, region_id |-> 1, state |-> "in_progress"] }

IncidentFixtures ==
  UNION { {coll \in [1..n -> IncidentPool] : \A i, j \in 1..n : coll[i] = coll[j] => i = j} :
          n \in 0..MaxIncidents }

IncidentFilters ==
  \/ IncidentList_clearFilters
  \/ \E value \in SearchInputs : IncidentList_setSearchName(value)
  \/ \E value \in DateInputs : IncidentList_setFilterDate(value)
  \/ \E value \in {NoId, 1, 2} : IncidentList_setFilterRegion(value)
  \/ \E value \in StatusInputs : IncidentList_setFilterStatus(value)

MountIncidents(colls) ==
  /\ screen = "incidents"
  /\ refreshSignal = 0
  /\ ui = [Unmounted EXCEPT !["IncidentList"] = fetchData(@)]
  /\ \E coll \in colls : server = [ServerInit EXCEPT !.incidents = coll]
  /\ net = [j \in {1} |-> FetchCall("IncidentList", FetchCalls("IncidentList"), FALSE)]
  /\ issued = 1
  /\ mutations = 0
  /\ budget = MaxMutations
  /\ inputs = 0
  /\ declined = 0

NextIncidents ==
  \/ \E i \in DOMAIN net, k \in 1..2 : ServeList(i, k)
  \/ \E i \in DOMAIN net : IncidentList_fetchSettled(i)
  \/ IncidentFilters
  \/ \E groupId \in IncidentList_groups : IncidentList_toggleGroup(groupId)

\* the Incidents tab, its filters included, over every collection
SpecIncidents == MountIncidents(IncidentFixtures) /\ [][NextIncidents]_vars

\* a collection of two groups, the first of two incidents
TwoGroups ==
  [k \in 1..3 |-> CHOOSE incident \in IncidentPool : incident.id = k]

NextIncidentRows ==
  \/ Backend
  \/ \E i \in DOMAIN net : IncidentList_fetchSettled(i)
  \/ \E value \in StatusInputs : IncidentList_setFilterStatus(value)
  \/ IncidentRows

\* the Incidents tab with its rows and the status filter, over one collection
SpecIncidentRows == MountIncidents({TwoGroups}) /\ [][NextIncidentRows]_vars

(***************************************************************************)
(* The transport: request() of api/client.ts over fetch(), and the         *)
(* resource clients that call it.  A response is its status and what its   *)
(* json() method gives: the parsed body, or SyntaxError where the body is  *)
(* not JSON.  Strings of a response body are TLA+ strings, "" the empty    *)
(* one; numbers do not occur in the bodies drawn here.                     *)
(***************************************************************************)
JUndefined == [type |-> "undefined"]
JList(items) == [type |-> "array", items |-> items]

\* data?.detail: the member of an object, undefined on every other value
Member(val, key) ==
  IF val.type = "object" /\ HasKey(val.obj, key) THEN ValueOf(val.obj, key) ELSE JUndefined

\* truthiness of a value: undefined, null and the empty string are falsy
ToBoolean(val) ==
  CASE val.type \in {"undefined", "null"} -> FALSE
    [] val.type = "string" -> val.str # ""
    [] val.type \in {"object", "array", "boolean"} -> TRUE

\* String(val), as new Error(message) and Array.prototype.join apply it
toStr(val) ==
  CASE val.type = "string" -> val.str
    [] val.type = "object" -> "[object Object]"
    [] val.type = "null" -> "null"
    [] val.type = "undefined" -> "undefined"
    [] val.type = "boolean" -> "true"

\* d.msg ?? d
msgOrSelf(d) ==
  LET msg == Member(d, "msg")
  IN IF msg.type \in {"undefined", "null"} THEN d ELSE msg

\* Array.prototype.join: null and undefined elements give the empty string
RECURSIVE join(_, _)
join(items, sep) ==
  IF Len(items) = 0 THEN ""
  ELSE LET head == IF items[1].type \in {"undefined", "null"} THEN "" ELSE toStr(items[1])
       IN IF Len(items) = 1 THEN head
          ELSE head \o sep \o join(Tail(items), sep)

Response(status, json) == [status |-> status, ok |-> status \in 200..299, json |-> json]
NoResponse == [status |-> 0, ok |-> FALSE, json |-> SyntaxError]

StatusMessage(status) == "Request failed with status " \o ToString(status)
\* the texts of the errors the platform throws
ParseMessage == "Unexpected end of JSON input"
FetchMessage == "Failed to fetch"

\* request_message taking the first element of a detail list only
request_message_unjoined(response) ==
  LET default == StatusMessage(response.status)
  IN IF ~response.json.ok THEN default
     ELSE LET detail == Member(response.json.val, "detail")
          IN IF ~ToBoolean(detail) THEN default
             ELSE IF isArray(detail)
                  THEN IF \E k \in 1..Len(detail.items) :
                            detail.items[k].type \in {"undefined", "null"}
                       THEN default
                       ELSE IF Len(detail.items) = 0 THEN ""
                       ELSE toStr(msgOrSelf(detail.items[1]))
             ELSE toStr(detail)

\* the message of the Error thrown for a response that is not ok; reading d.msg
\* of a null element throws inside the try, and the catch keeps the default
request_message(response) ==
  LET default == StatusMessage(response.status)
  IN IF ~response.json.ok THEN default
     ELSE LET detail == Member(response.json.val, "detail")
          IN IF ~ToBoolean(detail) THEN default
             ELSE IF isArray(detail)
                  THEN IF \E k \in 1..Len(detail.items) :
                            detail.items[k].type \in {"undefined", "null"}
                       THEN default
                       ELSE join([k \in 1..Len(detail.items) |-> msgOrSelf(detail.items[k])], ", ")
             ELSE toStr(detail)

Pending == [state |-> "pending", value |-> JUndefined, name |-> "", message |-> "", bodyUsed |-> FALSE]
Fulfilled(value, used) ==
  [state |-> "fulfilled", value |-> value, name |-> "", message |-> "", bodyUsed |-> used]
Threw(name, message, used) ==
  [state |-> "rejected", value |-> JUndefined, name |-> name, message |-> message, bodyUsed |-> used]

\* request() after its await fetch(url, init)
request(response) ==
  IF ~response.ok THEN Threw("Error", request_message(response), TRUE)
  ELSE IF response.status = 204 THEN Fulfilled(JUndefined, FALSE)
  ELSE IF response.json.ok THEN Fulfilled(response.json.val, TRUE)
  ELSE Threw("SyntaxError", ParseMessage, TRUE)

\* the resource clients drawn here, each one call of request()
ClientCalls ==
  { [fn |-> "listRegions", method |-> "GET", path |-> "/regions/"],
    [fn |-> "createLifeguard", method |-> "POST", path |-> "/lifeguards/"],
    [fn |-> "deleteIncident", method |-> "DELETE", path |-> "/incident/1"] }

Statuses == {200, 204, 404, 422, 500}
Detail(val) == JObj(<<[k |-> "detail", v |-> val]>>)
Msg(text) == JObj(<<[k |-> "msg", v |-> JStr(text)]>>)
FieldRequired == "field required"
Bodies ==
  << SyntaxError,
     Parsed(JObj(EmptyObject)),
     Parsed(JNull),
     Parsed(JList(<<>>)),
     Parsed(Detail(JStr(SlugExists))),
     Parsed(Detail(JStr(""))),
     Parsed(Detail(JNull)),
     Parsed(Detail(JList(<<>>))),
     Parsed(Detail(JList(<<Msg(FieldRequired)>>))),
     Parsed(Detail(JList(<<Msg(FieldRequired), Msg(NotADict)>>))),
     Parsed(Detail(JList(<<JStr(SlugExists)>>))),
     Parsed(Detail(JList(<<JObj(<<[k |-> "loc", v |-> JStr("body")]>>)>>))),
     Parsed(Detail(JList(<<JNull>>))) >>

OnClient == screen = "client"

\* a resource client calls request(), which runs up to its await: one fetch()
client_call(c) ==
  /\ OnClient
  /\ mutations < budget
  /\ mutations' = mutations + 1
  /\ issued' = issued + 1
  /\ net' = Add(net, issued + 1,
                [comp |-> "client", kind |-> c.fn, phase |-> "sent", req |-> c,
                 response |-> NoResponse, outcome |-> Pending])
  /\ UNCHANGED <<screen, budget, refreshSignal, ui, server, inputs, declined>>

\* the response of a request arrives
http_respond(i, status, b) ==
  /\ OnClient
  /\ i \in DOMAIN net
  /\ net[i].phase = "sent"
  /\ net' = [net EXCEPT ![i].phase = "answered", ![i].response = Response(status, Bodies[b])]
  /\ UNCHANGED <<screen, budget, refreshSignal, ui, server, issued, mutations, inputs, declined>>

\* the request fails in transport: fetch() rejects
http_fail(i) ==
  /\ OnClient
  /\ i \in DOMAIN net
  /\ net[i].phase = "sent"
  /\ net' = [net EXCEPT ![i].phase = "failed"]
  /\ UNCHANGED <<screen, budget, refreshSignal, ui, server, issued, mutations, inputs, declined>>

\* request() once more on a response that is not ok (request() has no such path)
request_settle_retrying(i) ==
  /\ OnClient
  /\ i \in DOMAIN net
  /\ net[i].phase \in {"answered", "failed"}
  /\ IF net[i].phase = "answered" /\ ~net[i].response.ok /\ issued < MaxMutations + 1
     THEN /\ net' = [net EXCEPT ![i].phase = "sent", ![i].response = NoResponse]
          /\ issued' = issued + 1
     ELSE /\ net' = [net EXCEPT ![i].phase = "settled",
                                ![i].outcome = IF net[i].phase = "failed"
                                               THEN Threw("TypeError", FetchMessage, FALSE)
                                               ELSE request(net[i].response)]
          /\ UNCHANGED issued
  /\ UNCHANGED <<screen, budget, refreshSignal, ui, server, mutations, inputs, declined>>

\* the continuation of request() after its await fetch(url, init): the promise
\* the resource client returned settles
request_settle(i) ==
  /\ OnClient
  /\ i \in DOMAIN net
  /\ net[i].phase \in {"answered", "failed"}
  /\ net' = [net EXCEPT ![i].phase = "settled",
                        ![i].outcome = IF net[i].phase = "failed"
                                       THEN Threw("TypeError", FetchMessage, FALSE)
                                       ELSE request(net[i].response)]
  /\ UNCHANGED <<screen, budget, refreshSignal, ui, server, issued, mutations, inputs, declined>>

InitRequest ==
  /\ screen = "client"
  /\ refreshSignal = 0
  /\ ui = Unmounted
  /\ server = ServerInit
  /\ net = <<>>
  /\ issued = 0
  /\ mutations = 0
  /\ budget = MaxMutations
  /\ inputs = 0
  /\ declined = 0

NextRequest ==
  \/ \E c \in ClientCalls : client_call(c)
  \/ \E i \in DOMAIN net, status \in Statuses, b \in 1..Len(Bodies) : http_respond(i, status, b)
  \/ \E i \in DOMAIN net : http_fail(i)
  \/ \E i \in DOMAIN net : request_settle(i)

\* the resource clients alone, called from outside the components
SpecRequest == InitRequest /\ [][NextRequest]_vars

(***************************************************************************)
(* Properties.                                                             *)
(***************************************************************************)
\* the calls a step issues, and the calls whose continuation a step runs
Issued == {i \in DOMAIN net' : i \notin DOMAIN net}
Continued == {i \in DOMAIN net : i \notin DOMAIN net'}

FetchingLists == {"RegionList", "ManagerList", "LifeguardList", "IncidentList"}

\* the entity collection and the lookup collection of a list
Collections(comp, s) ==
  CASE comp = "RegionList" -> <<s.regions, s.allManagers>>
    [] comp = "ManagerList" -> <<s.managers, s.allRegions>>
    [] comp = "LifeguardList" -> <<s.lifeguards, s.allRegions>>
    [] comp = "IncidentList" -> <<s.incidents, s.allRegions>>

AssignKinds == {"assignManagerToRegion", "unassignManagerFromRegion"}

\* C1: in the Region, Manager, Lifeguard and Incident lists a fetch cycle issues
\* its two requests together; its continuation sets both collections to the two
\* responses when both requests have succeeded, and when one has failed it sets
\* the error message (which the fetch cycle that the same step starts, if it
\* starts one, clears) and leaves both collections as they were; a step changes a
\* collection only as the continuation of a fetch cycle that has succeeded twice
\* or of a mutation that has succeeded
FetchIsJoined ==
  [][ /\ \A i \in Issued :
           net'[i].kind = "fetch" /\ net'[i].comp \in FetchingLists =>
             /\ Len(net'[i].req) = 2
             /\ \A k \in 1..2 : net'[i].res[k].st = "sent"
      /\ \A i \in Continued :
           net[i].kind = "fetch" /\ net[i].comp \in FetchingLists =>
             LET comp == net[i].comp
             IN IF net[i].res[1].st = "ok" /\ net[i].res[2].st = "ok"
                THEN Collections(comp, ui'[comp]) = <<net[i].res[1].data, net[i].res[2].data>>
                ELSE /\ \E k \in 1..2 :
                          /\ net[i].res[k].st = "fail"
                          /\ IF \E j \in Issued : net'[j].comp = comp /\ net'[j].kind = "fetch"
                             THEN ui'[comp].error = Null /\ ui'[comp].loading
                             ELSE ui'[comp].error = net[i].res[k].message
                     /\ Collections(comp, ui'[comp]) = Collections(comp, ui[comp])
      /\ \A comp \in FetchingLists :
           Collections(comp, ui'[comp]) # Collections(comp, ui[comp]) =>
             \E i \in Continued :
               /\ net[i].comp = comp
               /\ IF net[i].kind = "fetch"
                  THEN \A k \in 1..2 : net[i].res[k].st = "ok"
                  ELSE net[i].phase = "ok"
    ]_vars

\* C1: a list shows an error and, still, the collections of an earlier fetch cycle
StaleAfterFailedFetch ==
  \E comp \in FetchingLists :
    /\ comp = Listener(screen)
    /\ ui[comp].error # Null
    /\ ~ui[comp].loading
    /\ Collections(comp, ui[comp])[1] # <<>>
    /\ Collections(comp, ui[comp])[2] # <<>>

\* C2: the mounted list has issued one fetch cycle when it is mounted; a step
\* issues one fetch cycle of the mounted list if it changes the refresh signal,
\* one if it continues a relationship toggle of the Manager list that has
\* succeeded, and no fetch cycle otherwise
FetchPerSignalChange ==
  /\ issued = 1
  /\ DOMAIN net = {1}
  /\ net[1].kind = "fetch"
  /\ net[1].comp = Listener(screen)
  /\ [][ LET fetches == {i \in Issued : net'[i].kind = "fetch"}
             toggled == \E i \in Continued :
                          /\ net[i].comp = "ManagerList"
                          /\ net[i].kind \in AssignKinds
                          /\ net[i].phase = "ok"
         IN /\ \A i \in fetches : net'[i].comp = Listener(screen)
            /\ Cardinality(fetches) =
                 (IF refreshSignal' # refreshSignal THEN 1 ELSE 0)
                 + (IF toggled THEN 1 ELSE 0)
       ]_vars

\* C2: the Manager list re-fetches after a relationship toggle, the refresh signal
\* having changed before
RefetchAfterToggle ==
  /\ refreshSignal > 0
  /\ \E i \in DOMAIN net : net[i].kind = "fetch" /\ net[i].explicit

\* C10: in the Region list and in the Manager list the editing id and the
\* assigning id are never both set; a step that sets the editing id to a row
\* leaves the assigning id null, and a step that sets the assigning id to a row
\* leaves the editing id null
OnePanelOpen ==
  /\ [](~(regionList.editingRegionId # NoId /\ regionList.assigningRegionId # NoId))
  /\ [](~(managerList.editingManagerId # NoId /\ managerList.assigningManagerId # NoId))
  /\ [][ /\ regionList'.editingRegionId \notin {NoId, regionList.editingRegionId}
              => regionList'.assigningRegionId = NoId
         /\ regionList'.assigningRegionId \notin {NoId, regionList.assigningRegionId}
              => regionList'.editingRegionId = NoId
         /\ managerList'.editingManagerId \notin {NoId, managerList.editingManagerId}
              => managerList'.assigningManagerId = NoId
         /\ managerList'.assigningManagerId \notin {NoId, managerList.assigningManagerId}
              => managerList'.editingManagerId = NoId
       ]_vars

\* C10: an assignment panel is open on a row of the Region list after the row
\* editor, which still holds the slug it was opened with, has been closed by it
PanelOpenedOverEditor ==
  /\ regionList.assigningRegionId # NoId
  /\ regionList.editingRegionId = NoId
  /\ regionList.editSlug # <<>>

CreatingLists == {"RegionList", "ManagerList", "LifeguardList"}
CreateKinds == {"createRegion", "createManager", "createLifeguard"}

\* the entity collection of a list
Entities(comp, s) == Collections(comp, s)[1]

\* the fields of the create form of a list
CreateForm(comp, s) ==
  CASE comp = "RegionList" -> <<s.newSlug, s.newLocations, s.newLocationsText>>
    [] comp = "ManagerList" -> <<s.newName, s.newEmail, s.newRegionSlugs>>
    [] comp = "LifeguardList" -> <<s.newName, s.newPhone, s.newRegionId>>

EmptyCreateForm(comp) == CreateForm(comp, Unmounted[comp])

\* a text of white space only
Blank(text) == \A k \in 1..Len(text) : text[k] = " "

\* the continuation of a create call of a list that has succeeded: the entity is
\* appended, the form is reset and closed, the refresh signal is changed
CreateSucceeded(i) ==
  LET comp == net[i].comp
  IN /\ Entities(comp, ui'[comp]) = Append(Entities(comp, ui[comp]), net[i].res)
     /\ CreateForm(comp, ui'[comp]) = EmptyCreateForm(comp)
     /\ ~ui'[comp].showCreateForm
     /\ refreshSignal' # refreshSignal

\* C3, as the claim has it: when a create call of the Region, Manager or
\* Lifeguard list succeeds, the entity is appended last, the form is reset and
\* closed, the data change is signalled, and the list issues no fetch cycle
CreateAppendsWithoutRefetch ==
  [][ \A i \in Continued :
        net[i].comp \in CreatingLists /\ net[i].kind \in CreateKinds /\ net[i].phase = "ok" =>
          /\ CreateSucceeded(i)
          /\ ~\E j \in Issued : net'[j].kind = "fetch" /\ net'[j].comp = net[i].comp
    ]_vars

\* C3: when a create call of the Region, Manager or Lifeguard list succeeds, the
\* entity is appended last, the form is reset and closed, the data change is
\* signalled, and the list, which receives the changed refresh signal itself,
\* starts one fetch cycle of its own collections
CreateAppendsAndRefetches ==
  [][ \A i \in Continued :
        net[i].comp \in CreatingLists /\ net[i].kind \in CreateKinds /\ net[i].phase = "ok" =>
          /\ CreateSucceeded(i)
          /\ Cardinality({j \in Issued : net'[j].kind = "fetch" /\ net'[j].comp = net[i].comp}) = 1
          /\ ui'[net[i].comp].loading
    ]_vars

\* C3: a list has appended the entity it created, closed the form, and is
\* fetching again
CreatedAndFetching ==
  \E comp \in CreatingLists :
    /\ refreshSignal = 1
    /\ ui[comp].loading
    /\ ~ui[comp].showCreateForm
    /\ Len(Entities(comp, ui[comp])) > 1
    /\ Last(Entities(comp, ui[comp])).id = ServerInit.nextId
    /\ \E j \in DOMAIN net : net[j].kind = "fetch" /\ net[j].comp = comp

\* C4: when a create call of the Region, Manager or Lifeguard list is rejected,
\* the message is stored as the create error, the collection and the fields of
\* the form are unchanged, the form is left open or closed as it is, the refresh
\* signal is unchanged and no call is issued
CreateRejected ==
  [][ \A i \in Continued :
        net[i].comp \in CreatingLists /\ net[i].kind \in CreateKinds /\ net[i].phase = "fail" =>
          LET comp == net[i].comp
          IN /\ ui'[comp].createError = net[i].message
             /\ Entities(comp, ui'[comp]) = Entities(comp, ui[comp])
             /\ CreateForm(comp, ui'[comp]) = CreateForm(comp, ui[comp])
             /\ ui'[comp].showCreateForm = ui[comp].showCreateForm
             /\ refreshSignal' = refreshSignal
             /\ Issued = {}
    ]_vars

\* C4: the Region list shows the rejection of a slug that exists, in the open
\* form that still holds the slug
DuplicateSlugShown ==
  /\ regionList.createError = SlugExists
  /\ regionList.showCreateForm
  /\ regionList.newSlug = North
  /\ Len(regionList.regions) = Len(ServerInit.regions)
  /\ refreshSignal = 0

\* C5: a submit of the Manager create form with no region selected issues no
\* call, sets the create error and leaves the managers unchanged
ManagerNeedsRegion ==
  [][ ManagerList_handleCreate /\ managerList.newRegionSlugs = <<>> =>
        /\ net' = net
        /\ managerList'.createError # Null
        /\ managerList'.managers = managerList.managers
    ]_vars

\* C5: the Manager form, with a name and an email, has been refused for its
\* empty region selection
NoRegionRefused ==
  /\ managerList.createError = "At least one region must be selected"
  /\ ~Blank(managerList.newName)
  /\ ~Blank(managerList.newEmail)
  /\ managerList.managers # <<>>
  /\ net = <<>>

\* a submit of the create form of a list
Submitted(comp) ==
  CASE comp = "RegionList" -> RegionList_handleCreate \/ RegionListJson_handleCreate
    [] comp = "ManagerList" -> ManagerList_handleCreate
    [] comp = "LifeguardList" -> LifeguardList_handleCreate

\* a required field of the create form of a list is empty or white space
RequiredMissing(comp, s) ==
  CASE comp = "RegionList" -> Blank(s.newSlug)
    [] comp = "ManagerList" -> Blank(s.newName) \/ Blank(s.newEmail)
    [] comp = "LifeguardList" -> Blank(s.newName) \/ Blank(s.newPhone) \/ s.newRegionId = NoId

\* C9: a submit of a create form (of the Region, Manager or Lifeguard list, or
\* RegionForm) with a required field that is empty after trimming issues no
\* call, sets the inline error, and leaves the collection, every field of the
\* form and the form's open state as they are
RequiredFieldsChecked ==
  [][ /\ \A comp \in CreatingLists :
           Submitted(comp) /\ RequiredMissing(comp, ui[comp]) =>
             /\ net' = net
             /\ ui'[comp].createError # Null
             /\ Entities(comp, ui'[comp]) = Entities(comp, ui[comp])
             /\ CreateForm(comp, ui'[comp]) = CreateForm(comp, ui[comp])
             /\ ui'[comp].showCreateForm = ui[comp].showCreateForm
      /\ RegionForm_handleSubmit /\ Blank(regionForm.slug) =>
           /\ net' = net
           /\ regionForm'.error # Null
           /\ regionForm'.slug = regionForm.slug
           /\ regionForm'.locationsText = regionForm.locationsText
           /\ regionForm'.managersText = regionForm.managersText
           /\ legacyList' = legacyList
    ]_vars

\* C9: the Lifeguard form has been refused for a phone of white space only, and
\* still holds what was typed
BlankPhoneRefused ==
  /\ lifeguardList.createError = "Phone is required"
  /\ lifeguardList.newPhone = <<" ">>
  /\ ~Blank(lifeguardList.newName)
  /\ lifeguardList.showCreateForm
  /\ net = <<>>

\* the three Region create forms, submitted with locations of zero entries: rows
\* without a name, or the text {}
RowsWithoutName == \A k \in 1..Len(regionList.newLocations) : Blank(regionList.newLocations[k].name)
EmptyObjectText == <<LBrace, RBrace>>

\* C6, as the claim has it: a submit of a Region create form whose locations
\* have zero entries issues no call, in the row editor, in the raw-JSON editor
\* of the list and in RegionForm
EmptyLocationsRefusedEverywhere ==
  [][ \/ RegionList_handleCreate /\ RowsWithoutName
      \/ RegionListJson_handleCreate /\ regionList.newLocationsText = EmptyObjectText
      \/ RegionForm_handleSubmit /\ regionForm.locationsText = EmptyObjectText
      => net' = net
    ]_vars

\* C6: a submit of the row editor whose rows have no name issues no call and sets
\* the create error; a submit of the raw-JSON editor of the list or of RegionForm
\* with the text {} issues no call when the slug is blank, and otherwise sends the
\* create request with locations of zero entries
EmptyLocationsRefusedInRows ==
  [][ /\ RegionList_handleCreate /\ RowsWithoutName =>
           net' = net /\ regionList'.createError # Null
      /\ RegionListJson_handleCreate /\ regionList.newLocationsText = EmptyObjectText =>
           IF Blank(regionList.newSlug)
           THEN net' = net /\ regionList'.createError # Null
           ELSE \E j \in Issued : /\ net'[j].kind = "createRegion"
                                  /\ net'[j].req.locations = JObj(EmptyObject)
      /\ RegionForm_handleSubmit /\ regionForm.locationsText = EmptyObjectText =>
           IF Blank(regionForm.slug)
           THEN net' = net /\ regionForm'.error # Null
           ELSE \E j \in Issued : /\ net'[j].kind = "createRegion"
                                  /\ net'[j].req.locations = JObj(EmptyObject)
    ]_vars

\* C6: the row editor has refused a region with a slug and no named row
NoNamedRowRefused ==
  /\ screen = "regions"
  /\ regionList.createError = "At least one location with a name is required"
  /\ ~Blank(regionList.newSlug)
  /\ RowsWithoutName
  /\ regionList.showCreateForm
  /\ net = <<>>

\* a text without the white space around it
Strip(text) ==
  LET inked == {k \in 1..Len(text) : text[k] # " "}
  IN IF inked = {} THEN <<>>
     ELSE SubSeq(text, CHOOSE k \in inked : \A m \in inked : k <= m,
                       CHOOSE k \in inked : \A m \in inked : k >= m)

\* locations of at least one entry whose keys are not empty and are trimmed
NamedLocations(locations) ==
  /\ locations.type = "object"
  /\ Len(locations.obj) >= 1
  /\ \A key \in Keys(locations.obj) : key # <<>> /\ key = Strip(key)

\* the locations sent for the rows of an editor: the rows of a blank name are
\* dropped, and of the rows of one name the last gives the address
LocationsOfRows(rows, locations) ==
  LET named == {k \in 1..Len(rows) : ~Blank(rows[k].name)}
  IN /\ locations.type = "object"
     /\ UniqueKeys(locations.obj)
     /\ Keys(locations.obj) = {Strip(rows[k].name) : k \in named}
     /\ \A e \in Range(locations.obj) :
          \E k \in named :
            /\ Strip(rows[k].name) = e.k
            /\ \A m \in named : Strip(rows[m].name) = e.k => m <= k
            /\ e.v = Strip(rows[k].address)

\* the rows, or the text, of the editor of the Region list that a request was sent from
RowsSent(call) ==
  IF call.kind = "createRegion" THEN regionList.newLocations ELSE regionList.editLocations
TextSent(call) ==
  IF call.kind = "createRegion" THEN regionList.newLocationsText ELSE regionList.editLocationsText

\* C7, as the claim has it: every create or update request of a Region list
\* carries locations of at least one entry whose keys are not empty and are
\* trimmed, made of the rows as the claim says
RequestsCarryNamedLocations ==
  [][ \A j \in Issued :
        net'[j].comp = "RegionList" /\ net'[j].kind \in {"createRegion", "updateRegion"} =>
          /\ NamedLocations(net'[j].req.locations)
          /\ screen = "regions" => LocationsOfRows(RowsSent(net'[j]), net'[j].req.locations)
    ]_vars

\* C7: every create or update request of the row editor of the Region list
\* carries locations of at least one entry whose keys are not empty and are
\* trimmed: the rows of a blank name are dropped and the last of the rows of one
\* name gives the address; a request of the raw-JSON editor carries the object
\* its text parses to
RowRequestsCarryNamedLocations ==
  [][ \A j \in Issued :
        net'[j].comp = "RegionList" /\ net'[j].kind \in {"createRegion", "updateRegion"} =>
          IF screen = "regions"
          THEN /\ NamedLocations(net'[j].req.locations)
               /\ LocationsOfRows(RowsSent(net'[j]), net'[j].req.locations)
          ELSE /\ JSONparse(TextSent(net'[j])).ok
               /\ net'[j].req.locations = JSONparse(TextSent(net'[j])).val
    ]_vars

\* C7: the row editor has sent one entry for two rows of one name, with the
\* address of the second
LastRowSent ==
  /\ screen = "regions"
  /\ Len(regionList.editLocations) = 2
  /\ Strip(regionList.editLocations[1].name) = Strip(regionList.editLocations[2].name)
  /\ Strip(regionList.editLocations[1].address) # Strip(regionList.editLocations[2].address)
  /\ \E j \in DOMAIN net :
       /\ net[j].kind = "updateRegion"
       /\ Len(net[j].req.locations.obj) = 1
       /\ net[j].req.locations.obj[1].v = Strip(regionList.editLocations[2].address)

\* a text that does not parse to a JSON object
NotAnObject(text) ==
  LET parsed == JSONparse(text)
  IN ~parsed.ok \/ parsed.val.type # "object"

\* C8: a submit of a raw-JSON locations editor (the create form and the inline
\* editor of the Region list, RegionForm, the inline editor of the list beside
\* it) whose text does not parse to a JSON object issues no call, sets the
\* Invalid JSON error, keeps the text and leaves the regions unchanged
NonObjectsRefused ==
  [][ /\ RegionListJson_handleCreate /\ NotAnObject(regionList.newLocationsText) =>
           /\ net' = net
           /\ regionList'.createError = "Invalid JSON"
           /\ regionList'.newLocationsText = regionList.newLocationsText
           /\ regionList'.regions = regionList.regions
      /\ RegionListJson_saveRegion(regionList.editingRegionId)
           /\ NotAnObject(regionList.editLocationsText) =>
           /\ net' = net
           /\ regionList'.rowError = "Invalid JSON"
           /\ regionList'.editLocationsText = regionList.editLocationsText
           /\ regionList'.regions = regionList.regions
      /\ RegionForm_handleSubmit /\ NotAnObject(regionForm.locationsText) =>
           /\ net' = net
           /\ regionForm'.error = "Invalid locations JSON"
           /\ regionForm'.locationsText = regionForm.locationsText
           /\ legacyList'.regions = legacyList.regions
      /\ LegacyRegionList_saveLocations(legacyList.editingRegionId)
           /\ NotAnObject(legacyList.locationsText) =>
           /\ net' = net
           /\ legacyList'.rowError = "Invalid JSON"
           /\ legacyList'.locationsText = legacyList.locationsText
           /\ legacyList'.regions = legacyList.regions
    ]_vars

EditingLists == {"RegionList", "ManagerList", "LifeguardList"}
UpdateKinds == {"updateRegion", "updateManager", "updateLifeguard"}

\* the id of the row a list is editing, and the fields the edit is staged in
EditingId(comp, s) ==
  CASE comp = "RegionList" -> s.editingRegionId
    [] comp = "ManagerList" -> s.editingManagerId
    [] comp = "LifeguardList" -> s.editingLifeguardId

Staged(comp, s) ==
  CASE comp = "RegionList" -> <<s.editSlug, s.editLocations, s.editLocationsText>>
    [] comp = "ManagerList" -> <<s.editName, s.editEmail>>
    [] comp = "LifeguardList" -> <<s.editName, s.editPhone, s.editRegionId>>

EmptyStaged(comp) == Staged(comp, Unmounted[comp])

\* the steps that are a click on Cancel
Cancelled ==
  RegionList_cancelEditing \/ ManagerList_cancelEditing \/ LifeguardList_cancelEditing

\* the continuation of an update call that has succeeded
UpdateSucceeded(i) ==
  /\ i \in Continued
  /\ net[i].kind \in UpdateKinds
  /\ net[i].phase = "ok"

\* C11: a step that types into a field of an inline editor, or that cancels an
\* edit, issues no call and changes neither the back end, the refresh signal nor
\* an entity collection; after a cancel the editing id is null, the staged fields
\* are empty and the row error is null; while a row is being edited its list's
\* collection changes only as an update call that has succeeded is continued, or
\* as the fetch cycle that such an update has triggered is; and the refresh signal
\* changes only as an update call that has succeeded is continued
StagedEditsStayLocal ==
  [][ /\ (inputs' # inputs \/ Cancelled) =>
           /\ net' = net /\ server' = server /\ refreshSignal' = refreshSignal
           /\ \A comp \in EditingLists : Entities(comp, ui'[comp]) = Entities(comp, ui[comp])
      /\ Cancelled =>
           LET comp == Listener(screen)
           IN /\ EditingId(comp, ui'[comp]) = NoId
              /\ Staged(comp, ui'[comp]) = EmptyStaged(comp)
              /\ ui'[comp].rowError = Null
      /\ \A comp \in EditingLists :
           /\ EditingId(comp, ui[comp]) # NoId
           /\ Entities(comp, ui'[comp]) # Entities(comp, ui[comp])
           => \E i \in Continued :
                /\ net[i].comp = comp
                /\ \/ UpdateSucceeded(i)
                   \/ net[i].kind = "fetch" /\ Resolved(net[i]) /\ refreshSignal > 0
      /\ refreshSignal' # refreshSignal => \E i \in Continued : UpdateSucceeded(i)
    ]_vars

\* C11: an edit of a region has been typed into and cancelled: nothing was sent,
\* and the list is the one that was fetched
EditCancelled ==
  /\ inputs > 0
  /\ issued = 1
  /\ regionList.editingRegionId = NoId
  /\ regionList.editSlug = <<>>
  /\ regionList.rowError = Null
  /\ regionList.regions # <<>>
  /\ regionList.regions = listRegions(server)

\* the state of a list whose create form holds the values staged in its inline
\* editor; the regions of a manager are not among the fields edited inline, and
\* one is taken as selected
AsCreateForm(comp, s) ==
  CASE comp = "RegionList" ->
         [s EXCEPT !.newSlug = s.editSlug, !.newLocations = s.editLocations,
                   !.newLocationsText = s.editLocationsText]
    [] comp = "ManagerList" ->
         [s EXCEPT !.newName = s.editName, !.newEmail = s.editEmail,
                   !.newRegionSlugs = <<North>>]
    [] comp = "LifeguardList" ->
         [s EXCEPT !.newName = s.editName, !.newPhone = s.editPhone,
                   !.newRegionId = s.editRegionId]

\* the create form of the list rejects the staged values
CreateWouldReject(comp, s) ==
  CASE comp = "RegionList" ->
         IF screen = "regions"
         THEN RegionList_createInvalid(AsCreateForm(comp, s)) # Null
         ELSE RegionListJson_createInvalid(AsCreateForm(comp, s)) # Null
    [] comp = "ManagerList" -> ManagerList_createInvalid(AsCreateForm(comp, s)) # Null
    [] comp = "LifeguardList" -> LifeguardList_createInvalid(AsCreateForm(comp, s)) # Null

\* the steps that are a click on Save
SaveClicked(comp) ==
  CASE comp = "RegionList" ->
         \E regionId \in Ids(regionList.regions) :
           RegionList_saveRegion(regionId) \/ RegionListJson_saveRegion(regionId)
    [] comp = "ManagerList" ->
         \E managerId \in Ids(managerList.managers) : ManagerList_saveManager(managerId)
    [] comp = "LifeguardList" ->
         \E lifeguardId \in Ids(lifeguardList.lifeguards) :
           LifeguardList_saveLifeguard(lifeguardId)

\* C12: a click on Save with staged values that the create form of the same list
\* rejects issues no call, sets the row error, and leaves the row in edit mode,
\* the staged values and the collection as they are
SaveValidatesAsCreate ==
  [][ \A comp \in EditingLists :
        SaveClicked(comp) /\ CreateWouldReject(comp, ui[comp]) =>
          /\ net' = net
          /\ ui'[comp].rowError # Null
          /\ EditingId(comp, ui'[comp]) = EditingId(comp, ui[comp])
          /\ EditingId(comp, ui'[comp]) # NoId
          /\ Staged(comp, ui'[comp]) = Staged(comp, ui[comp])
          /\ Entities(comp, ui'[comp]) = Entities(comp, ui[comp])
    ]_vars

\* C12: the save of a region with a slug and no named row has been refused: the
\* row is in edit mode and nothing was sent
SaveRefused ==
  /\ regionList.rowError = "At least one location with a name is required"
  /\ regionList.editingRegionId # NoId
  /\ truthy(trim(regionList.editSlug))
  /\ issued = 1
  /\ regionList.regions = listRegions(server)

\* C13: the continuation of an update call that has succeeded replaces, in the
\* collection of its list, the entities whose id is the saved id by the response
\* and leaves every other entity, the order and the length as they are; it closes
\* the edit panel and adds one to the refresh signal
UpdateReplacesOne ==
  [][ \A i \in Continued :
        net[i].kind \in UpdateKinds /\ net[i].phase = "ok" =>
          LET comp == net[i].comp
              before == Entities(comp, ui[comp])
              after == Entities(comp, ui'[comp])
          IN /\ Len(after) = Len(before)
             /\ \A k \in 1..Len(before) :
                  after[k] = IF before[k].id = net[i].req.id THEN net[i].res ELSE before[k]
             /\ EditingId(comp, ui'[comp]) = NoId
             /\ refreshSignal' = handleDataChange(refreshSignal)
    ]_vars

\* C13: the first region has been saved under a new slug: it is where it was, the
\* second region is as it was, the editor is closed and the signal has changed
UpdatedInPlace ==
  /\ Len(regionList.regions) = 2
  /\ regionList.regions[1].id = 1
  /\ regionList.regions[1].slug = East
  /\ regionList.regions[2] = listRegions(ServerInit)[2]
  /\ regionList.editingRegionId = NoId
  /\ refreshSignal = 1

\* C14: the continuation of an update call that has failed leaves the collection,
\* the refresh signal, the editing id and the staged values as they are and sets
\* the row error to the message; the error, which is rendered on the row that is
\* being edited, is then on the row whose save has failed and on no other row
FailedSaveIsRowScoped ==
  [][ \A i \in Continued :
        net[i].kind \in UpdateKinds /\ net[i].phase = "fail" =>
          LET comp == net[i].comp
          IN /\ Entities(comp, ui'[comp]) = Entities(comp, ui[comp])
             /\ refreshSignal' = refreshSignal
             /\ EditingId(comp, ui'[comp]) = EditingId(comp, ui[comp])
             /\ Staged(comp, ui'[comp]) = Staged(comp, ui[comp])
             /\ ui'[comp].rowError = net[i].message
             /\ EditingId(comp, ui'[comp]) \in {NoId, net[i].req.id}
    ]_vars

\* the steps that are a click on a checkbox of an assignment panel
CheckboxToggled ==
  \/ \E region \in Range(regionList.regions), manager \in Range(regionList.allManagers) :
       RegionList_toggleManagerAssignment(region, manager)
  \/ \E manager \in Range(managerList.managers), region \in Range(managerList.allRegions) :
       ManagerList_toggleRegionAssignment(manager, region)

\* the pair of a call is in the relationship list the list holds: region.managers
\* in the Region list, manager.regions in the Manager list
LocalMember(call) ==
  IF call.comp = "RegionList"
  THEN call.req.manager \in ById(regionList.regions, call.req.region).managers
  ELSE call.req.region \in ById(managerList.managers, call.req.manager).regions

\* C15: a click on a checkbox of an assignment panel issues one call; a step
\* that issues an assign or unassign call issues that call only, for one region
\* id and one manager id, and stages nothing (no cell of a component, the
\* refresh signal and the back end are as they were); the call is the unassign
\* if the pair is in the relationship list held when the step is taken, and the
\* assign otherwise
ToggleIssuesOneCall ==
  [][ /\ CheckboxToggled =>
           \E i \in Issued : Issued = {i} /\ net'[i].kind \in AssignKinds
      /\ \A i \in Issued :
           net'[i].kind \in AssignKinds =>
             /\ Issued = {i}
             /\ Continued = {}
             /\ net'[i].comp \in {"RegionList", "ManagerList"}
             /\ net'[i].phase = "sent"
             /\ DOMAIN net'[i].req = {"region", "manager"}
             /\ ui' = ui /\ refreshSignal' = refreshSignal /\ server' = server
             /\ net'[i].kind = IF LocalMember(net'[i])
                               THEN "unassignManagerFromRegion"
                               ELSE "assignManagerToRegion"
    ]_vars

\* C15: the Region list has asked for a manager to be assigned to a region that it
\* holds without that manager, and the Manager list for a region to be unassigned
\* from a manager that it holds with that region
ToggleRequested ==
  \E i \in DOMAIN net :
    /\ net[i].phase = "sent"
    /\ \/ /\ net[i].comp = "RegionList"
          /\ net[i].kind = "assignManagerToRegion"
          /\ ~LocalMember(net[i])
       \/ /\ net[i].comp = "ManagerList"
          /\ net[i].kind = "unassignManagerFromRegion"
          /\ LocalMember(net[i])

\* C16: the continuation of an assign or unassign call of the Region list that
\* has succeeded replaces the regions whose id is the toggled id by the response
\* and leaves every other region, their order and the list of all managers as
\* they are; the continuation of one that has failed leaves every region and the
\* list of all managers as they are
ToggleUpdatesOneRegion ==
  [][ \A i \in Continued :
        net[i].comp = "RegionList" /\ net[i].kind \in AssignKinds =>
          /\ regionList'.allManagers = regionList.allManagers
          /\ Len(regionList'.regions) = Len(regionList.regions)
          /\ \A k \in 1..Len(regionList.regions) :
               regionList'.regions[k] =
                 IF net[i].phase = "ok" /\ regionList.regions[k].id = net[i].req.region
                 THEN net[i].res
                 ELSE regionList.regions[k]
    ]_vars

\* C16: the manager has been assigned to the second region, whose row shows it
\* before the fetch cycle that follows has been answered; the first row is as it
\* was fetched
RowToggled ==
  /\ screen = "regions"
  /\ mutations = 1
  /\ Len(regionList.regions) = 2
  /\ regionList.regions[2].managers = {1}
  /\ regionList.regions[1] = listRegions(ServerInit)[1]
  /\ \E i \in DOMAIN net :
       net[i].kind = "fetch" /\ \A k \in 1..2 : net[i].res[k].st = "sent"

\* the fetch cycle that toggleRegionAssignment awaits
AwaitedFetch(call) == call.comp = "ManagerList" /\ call.kind = "fetch" /\ call.explicit

\* C17: the continuation of an assign or unassign call of the Manager list leaves
\* the managers, the regions and the refresh signal as they are; if the call has
\* succeeded it issues one fetch cycle of the managers and the regions, and if it
\* has failed it issues nothing; the refresh signal changes by one as that fetch
\* cycle, resolved or rejected, is continued, and in the Manager list a toggle
\* changes the signal in no other step
ManagerToggleRefetches ==
  [][ /\ \A i \in Continued :
           net[i].comp = "ManagerList" /\ net[i].kind \in AssignKinds =>
             /\ managerList'.managers = managerList.managers
             /\ managerList'.allRegions = managerList.allRegions
             /\ refreshSignal' = refreshSignal
             /\ IF net[i].phase = "ok"
                THEN \E j \in Issued :
                       /\ Issued = {j}
                       /\ AwaitedFetch(net'[j])
                       /\ net'[j].req = <<"listManagers", "listRegions">>
                       /\ \A k \in 1..2 : net'[j].res[k].st = "sent"
                ELSE Issued = {}
      /\ \A i \in Continued :
           AwaitedFetch(net[i]) =>
             /\ Rejected(net[i]) \/ Resolved(net[i])
             /\ refreshSignal' = handleDataChange(refreshSignal)
      /\ \A j \in Issued :
           AwaitedFetch(net'[j]) =>
             \E i \in Continued : net[i].kind \in AssignKinds /\ net[i].phase = "ok"
    ]_vars

\* C17: the Manager list shows the manager with the second region, which it can
\* have from a fetch cycle only, and the signal has changed once, after the one
\* call the user has made
ToggleRefetched ==
  /\ screen = "managers"
  /\ mutations = 1
  /\ refreshSignal = 1
  /\ managerList.managers # <<>>
  /\ managerList.managers[1].regions = {1, 2}

DeleteKinds == {"deleteRegion", "deleteManager", "deleteLifeguard", "deleteIncident"}

\* a delete call of the Region, Manager, Lifeguard or Incident list
DeleteOf(call) == call.kind \in DeleteKinds /\ call.comp \in FetchingLists

\* C18: the step that issues a delete call changes no cell of a component and not
\* the refresh signal, and the entity is in the collection after it; the
\* continuation of a delete call that has succeeded removes the entities of the
\* deleted id, keeps the others in their order and adds one to the refresh
\* signal; the continuation of one that has failed leaves the collection and the
\* signal as they are; and an entity leaves a collection only as a delete call of
\* its id that has succeeded, or a fetch cycle that has resolved, is continued
DeleteAfterSuccess ==
  [][ /\ \A i \in Issued :
           DeleteOf(net'[i]) =>
             /\ ui' = ui
             /\ refreshSignal' = refreshSignal
             /\ net'[i].phase = "sent"
             /\ net'[i].req.id \in Ids(Entities(net'[i].comp, ui'[net'[i].comp]))
      /\ \A i \in Continued :
           DeleteOf(net[i]) =>
             LET comp == net[i].comp
                 before == Entities(comp, ui[comp])
                 after == Entities(comp, ui'[comp])
             IN IF net[i].phase = "ok"
                THEN /\ after = SelectSeq(before, LAMBDA e : e.id # net[i].req.id)
                     /\ refreshSignal' = handleDataChange(refreshSignal)
                ELSE /\ after = before
                     /\ refreshSignal' = refreshSignal
      /\ \A comp \in FetchingLists :
           LET gone == Ids(Entities(comp, ui[comp])) \ Ids(Entities(comp, ui'[comp]))
           IN gone # {} =>
                \E i \in Continued :
                  /\ net[i].comp = comp
                  /\ \/ /\ net[i].kind \in DeleteKinds
                        /\ net[i].phase = "ok"
                        /\ gone = {net[i].req.id}
                     \/ net[i].kind = "fetch" /\ Resolved(net[i])
    ]_vars

\* C18: the second region has been deleted: the list holds the first region only,
\* the signal has changed, and the fetch cycle that follows is not answered yet
RegionDeleted ==
  /\ screen = "regions"
  /\ mutations = 1
  /\ refreshSignal = 1
  /\ regionList.regions = <<listRegions(ServerInit)[1]>>
  /\ Ids(server.regions) = {1}
  /\ \E i \in DOMAIN net :
       net[i].kind = "fetch" /\ \A k \in 1..2 : net[i].res[k].st = "sent"

\* the steps in which the user declines the confirmation of a delete
DeleteDeclined ==
  \/ \E id \in Ids(regionList.regions) : RegionList_handleDelete(id, FALSE)
  \/ \E id \in Ids(managerList.managers) : ManagerList_handleDelete(id, FALSE)
  \/ \E id \in Ids(lifeguardList.lifeguards) : LifeguardList_handleDelete(id, FALSE)
  \/ \E id \in Ids(incidentList.incidents) : IncidentList_handleDelete(id, FALSE)

\* C19: a step in which the user declines the confirmation of a delete, in the
\* Region, Manager, Lifeguard or Incident list, issues no call and leaves every
\* cell of every component, the refresh signal and the back end as they are
DeclinedDeleteChangesNothing ==
  [][ DeleteDeclined =>
        /\ net' = net
        /\ issued' = issued
        /\ ui' = ui
        /\ refreshSignal' = refreshSignal
        /\ server' = server
    ]_vars

\* C19: a confirmation has been declined in the Incident list, a group being
\* expanded: nothing was sent, and the list is the one that was fetched
DeclinedOnce ==
  /\ declined = 1
  /\ issued = 1
  /\ net = <<>>
  /\ screen = "incidents"
  /\ incidentList.expandedGroups # {}
  /\ incidentList.incidents = listIncidents(ServerInit)
  /\ server = ServerInit

\* no request fails
NoFailure ==
  \A i \in DOMAIN net :
    IF net[i].kind = "fetch" THEN ~Rejected(net[i]) ELSE net[i].phase # "fail"

\* the mounted list holds the collection the back end holds
Consistent ==
  LET comp == Listener(screen)
  IN Entities(comp, ui[comp]) = List(server, FetchCalls(comp)[1])

\* C20: if no request ever fails and, from some point on, the user does not act
\* (every step is an answer of the back end or a continuation), the mounted list
\* eventually holds the collection of the back end and holds it from then on
EventuallyConsistent ==
  []NoFailure /\ <>[][Continuations]_vars => <>[]Consistent

(***************************************************************************)
(* The transport.                                                          *)
(***************************************************************************)
\* the calls of the resource clients whose promise has settled on a response
Answered == {i \in DOMAIN net : net[i].phase = "settled" /\ net[i].response.status \in Statuses}
NotOk(i) == net[i].response.status \notin 200..299

\* the detail of a response body, undefined where the body is not JSON or has none
DetailOf(response) ==
  IF response.json.ok THEN Member(response.json.val, "detail") ELSE JUndefined

\* the msg of an element of a detail list, or the element's string form
ElementText(d) ==
  IF d.type = "object" /\ HasKey(d.obj, "msg") /\ ValueOf(d.obj, "msg").type = "string"
  THEN ValueOf(d.obj, "msg")
  ELSE d
ElementTexts(detail) == join([k \in 1..Len(detail.items) |-> ElementText(detail.items[k])], ", ")

Usable(detail) ==
  \/ detail.type = "string" /\ detail.str # ""
  \/ detail.type = "array" /\ \A k \in 1..Len(detail.items) : detail.items[k].type # "null"

SuccessResolves ==
  \A i \in Answered :
    ~NotOk(i) =>
      IF net[i].response.status = 204
      THEN net[i].outcome = Fulfilled(JUndefined, FALSE)
      ELSE /\ net[i].outcome.state = "fulfilled"
           /\ net[i].outcome.value = net[i].response.json.val

\* C23: a call of a resource client sends exactly one HTTP request of its own,
\* unanswered when it is sent; no other step sends one, so a request that has
\* failed is never sent again; and every promise settles on the response of its
\* own request
OneRoundTripPerCall ==
  [][ /\ mutations' \in {mutations, mutations + 1}
      /\ issued' - issued = mutations' - mutations
      /\ Cardinality(Issued) = mutations' - mutations
      /\ Continued = {}
      /\ \A i \in Issued : net'[i].phase = "sent" /\ net'[i].outcome = Pending
      /\ \A i \in DOMAIN net :
           /\ net[i].phase # "sent" => net'[i].phase # "sent"
           /\ net[i].phase # "settled" /\ net'[i].phase = "settled" =>
                net'[i].outcome = IF net[i].phase = "failed"
                                  THEN Threw("TypeError", FetchMessage, FALSE)
                                  ELSE request(net[i].response) ]_vars

\* C23 witness: two calls of the same resource client have been made; the
\* request of one has failed and its promise is rejected, the other request is
\* still unanswered, and two requests have been sent in all
FailedCallNotRepeated ==
  /\ mutations = 2
  /\ issued = 2
  /\ DOMAIN net = {1, 2}
  /\ net[1].kind = net[2].kind
  /\ net[1].phase = "settled"
  /\ net[1].outcome.state = "rejected"
  /\ net[2].phase = "sent"

(***************************************************************************)
(* The incident list.                                                      *)
(***************************************************************************)
\* search occurs in name, letters compared without their case
OccursIn(search, name) ==
  \E k \in 0..(Len(name) - Len(search)) :
    \A j \in 1..Len(search) : Lower(name[k + j]) = Lower(search[j])

\* the predicates of the filter cells s that are active, each on its own
NameMatches(s, incident) ==
  s.searchName = <<>> \/ OccursIn(s.searchName, incident.person_involved_name)
DateMatches(s, incident) ==
  s.filterDate = NoId \/ incident.date_of_incident = s.filterDate
RegionMatches(s, incident) ==
  s.filterRegion = NoId \/ incident.region_id = s.filterRegion
StatusMatches(s, incident) ==
  \/ s.filterStatus = "all"
  \/ s.filterStatus = "done" /\ incident.state = "done"
  \/ s.filterStatus = "unfinished" /\ incident.state # "done"

WithStatus(s, status) == Range(IncidentList_filtered([s EXCEPT !.filterStatus = status]))

\* C24: the filtered incidents are exactly the incidents of the collection that
\* match the name, the date, the region and the status filter together, once
\* each and in the order of the collection; and the 'done' and 'unfinished'
\* results are disjoint and together the result of 'all'
FilterIsConjunctive ==
  LET s == incidentList
      filtered == IncidentList_filtered(s)
  IN /\ Range(filtered) =
          {incident \in Range(s.incidents) :
             /\ NameMatches(s, incident)
             /\ DateMatches(s, incident)
             /\ RegionMatches(s, incident)
             /\ StatusMatches(s, incident)}
     /\ \A i, j \in 1..Len(filtered) : i < j =>
          \E a, b \in 1..Len(s.incidents) :
            a < b /\ s.incidents[a] = filtered[i] /\ s.incidents[b] = filtered[j]
     /\ WithStatus(s, "done") \cap WithStatus(s, "unfinished") = {}
     /\ WithStatus(s, "done") \cup WithStatus(s, "unfinished") = WithStatus(s, "all")

\* C24 witness: with the name JO and the status done, of three incidents loaded
\* (Jo done, jo open, Al done) only the first is left
NameAndStatusFiltered ==
  /\ incidentList.searchName = <<"J", "O">>
  /\ incidentList.filterStatus = "done"
  /\ {incident.id : incident \in Range(incidentList.incidents)} = {1, 2, 3}
  /\ {incident.id : incident \in Range(IncidentList_filtered(incidentList))} = {1}

\* the grouped view of the incident list, and the places (group, position) of it
View == IncidentList_filteredAndGroupedIncidents(incidentList)
Places(view) == {<<g, m>> \in (1..Len(view)) \X (1..MaxIncidents) : m <= Len(view[g].incidents)}

\* C25: the groups partition the filtered incidents: every filtered incident is
\* at exactly one place of the view, every incident of the view is a filtered
\* one in the group of its group_id, no group is empty and no two groups have
\* the same key
GroupsPartitionFiltered ==
  LET filtered == Range(IncidentList_filtered(incidentList))
  IN /\ \A incident \in filtered :
          Cardinality({p \in Places(View) : View[p[1]].incidents[p[2]] = incident}) = 1
     /\ \A p \in Places(View) :
          /\ View[p[1]].incidents[p[2]] \in filtered
          /\ View[p[1]].incidents[p[2]].group_id = View[p[1]].groupId
     /\ \A g \in 1..Len(View) : View[g].incidents # <<>>
     /\ \A g, h \in 1..Len(View) : View[g].groupId = View[h].groupId => g = h

\* C25 witness: the collection holds an incident of group 1, then one of group
\* 2, then another of group 1, all three pass the filter, and the view is two
\* groups of two and of one incident
InterleavedGroupsGathered ==
  /\ Len(incidentList.incidents) = 3
  /\ <<incidentList.incidents[1].group_id, incidentList.incidents[2].group_id,
       incidentList.incidents[3].group_id>> = <<1, 2, 1>>
  /\ Len(IncidentList_filtered(incidentList)) = 3
  /\ Len(View) = 2
  /\ {Len(View[g].incidents) : g \in 1..2} = {1, 2}

\* C26: in every group of the view no incident is followed by a more recent
\* one, and no group is followed by a group whose first incident is more recent
MostRecentFirst ==
  /\ \A g \in 1..Len(View) :
       \A m \in 1..(Len(View[g].incidents) - 1) :
         View[g].incidents[m].date_of_incident >= View[g].incidents[m + 1].date_of_incident
  /\ \A g \in 1..(Len(View) - 1) :
       View[g].incidents[1].date_of_incident >= View[g + 1].incidents[1].date_of_incident

\* C26 witness: the collection holds an incident of group 2, then the older and
\* the newer incident of group 1; the view shows group 1 first, its newer
\* incident first, and group 2 after it
GroupsAndMembersReordered ==
  /\ [k \in 1..Len(incidentList.incidents) |-> incidentList.incidents[k].id] = <<3, 2, 1>>
  /\ Len(View) = 2
  /\ [m \in 1..Len(View[1].incidents) |-> View[1].incidents[m].id] = <<1, 2>>
  /\ View[2].groupId = 2

\* the incidents of a view in the order shown
RECURSIVE Flatten(_)
Flatten(view) ==
  IF view = <<>> THEN <<>> ELSE Head(view).incidents \o Flatten(Tail(view))

\* C27: filtering, grouping and sorting the incidents of the view, in the order
\* the view shows them, gives the view again
PipelineIsIdempotent ==
  IncidentList_filteredAndGroupedIncidents([incidentList EXCEPT !.incidents = Flatten(View)])
    = View

\* C27 witness: of three incidents of the same day, the second of another
\* group than the first and the third, the view gathers the first and the
\* third, in that order, before the second
EqualDatesKeepOrder ==
  /\ [k \in 1..Len(incidentList.incidents) |-> incidentList.incidents[k].id] = <<3, 2, 4>>
  /\ \A incident \in Range(incidentList.incidents) : incident.date_of_incident = 2
  /\ [k \in 1..Len(Flatten(View)) |-> Flatten(View)[k].id] = <<3, 4, 2>>

\* the members of a group of a view, and the keys of its groups
MembersOf(view, groupId) ==
  UNION {Range(view[g].incidents) : g \in {h \in 1..Len(view) : view[h].groupId = groupId}}
GroupIds(view) == {view[g].groupId : g \in 1..Len(view)}

\* C28: the continuation of a delete of an incident that succeeded removes that
\* incident from the incidents held and no other, and signals data-changed; in
\* the view every group keeps its other members, and a group is still there
\* exactly when one of its members is left
DeleteRemovesOneIncident ==
  [][ \A i \in Continued :
        net[i].kind = "deleteIncident" /\ net[i].phase = "ok" =>
          LET id == net[i].req.id
              before == View
              after == IncidentList_filteredAndGroupedIncidents(incidentList')
          IN /\ incidentList'.incidents =
                  SelectSeq(incidentList.incidents, LAMBDA inc : inc.id # id)
             /\ refreshSignal' = refreshSignal + 1
             /\ \A groupId \in GroupIds(before) :
                  LET left == {inc \in MembersOf(before, groupId) : inc.id # id}
                  IN /\ MembersOf(after, groupId) = left
                     /\ groupId \in GroupIds(after) <=> left # {}
             /\ GroupIds(after) \subseteq GroupIds(before) ]_vars

\* C28 witness: the only incident of group 2, expanded, has been deleted: the
\* two incidents of group 1 are held, data-changed has been signalled once, and
\* the view has no group 2
LastMemberDeleted ==
  /\ [k \in 1..Len(incidentList.incidents) |-> incidentList.incidents[k].id] = <<1, 2>>
  /\ refreshSignal = 1
  /\ 2 \in incidentList.expandedGroups
  /\ incidentList.filterStatus = "all"
  /\ GroupIds(View) = {1}
  /\ Len(View[1].incidents) = 2

\* C29: no group is expanded at the start and only a click on the header of a
\* group changes which are; the click flips the flag of that group, leaves the
\* flag of every other group, the incidents, the filters and every other cell
\* as they were, sends nothing, and a second click would give the expanded
\* groups back
GroupToggleIsLocal ==
  /\ incidentList.expandedGroups = {}
  /\ [][ /\ incidentList'.expandedGroups # incidentList.expandedGroups =>
              \E groupId \in IncidentList_groups : IncidentList_toggleGroup(groupId)
         /\ \A groupId \in IncidentList_groups :
              IncidentList_toggleGroup(groupId) =>
                LET was == incidentList.expandedGroups
                    is == incidentList'.expandedGroups
                IN /\ (groupId \in is) = (groupId \notin was)
                   /\ is \ {groupId} = was \ {groupId}
                   /\ [incidentList' EXCEPT !.expandedGroups = was] = incidentList
                   /\ UNCHANGED <<net, issued, server, refreshSignal>>
                   /\ IncidentList_toggleGroupState(incidentList', groupId) = incidentList
       ]_vars

\* C29 witness: two groups are shown under a filter, both have been expanded,
\* and the only call ever sent is the first fetch
BothGroupsExpanded ==
  /\ IncidentList_groups = {1, 2}
  /\ incidentList.expandedGroups = {1, 2}
  /\ IncidentList_hasActiveFilters
  /\ net = <<>>
  /\ issued = 1

(***************************************************************************)
(* Fetch cycles in flight together.                                        *)
(***************************************************************************)
\* C30: a fetch cycle that is started cancels no fetch cycle in flight, and the
\* continuation of a fetch cycle that has resolved sets the collection of its
\* list to its response whether the other fetch cycles of the list in flight
\* were issued before or after it, and leaves them in flight as they are: of
\* two cycles the one that resolves last leaves its response
LastToResolveWins ==
  [][ /\ \A i \in Issued :
           net'[i].kind = "fetch" =>
             \A j \in InFlight(net'[i].comp, {"fetch"}) \ Continued :
               j \in DOMAIN net' /\ net'[j] = net[j]
      /\ \A i \in Continued :
           net[i].kind = "fetch" /\ net[i].comp \in FetchingLists /\ Resolved(net[i]) =>
             LET comp == net[i].comp
             IN /\ Entities(comp, ui'[comp]) = net[i].res[1].data
                /\ \A j \in InFlight(comp, {"fetch"}) \ {i} :
                     j \in DOMAIN net' /\ net'[j] = net[j]
    ]_vars

\* C30 witness: both regions have been deleted, one after the other, and each
\* delete has started a fetch cycle; nothing is in flight any more and no fetch
\* has failed since the last one started, yet the Regions list holds a region:
\* the response of a cycle issued before the last delete arrived after the
\* response of the last cycle
EarlierFetchArrivedLast ==
  /\ screen = "regions"
  /\ server.regions = <<>>
  /\ refreshSignal = 2
  /\ net = <<>>
  /\ regionList.error = Null
  /\ ~regionList.loading
  /\ regionList.regions # <<>>

(***************************************************************************)
(* Mutations in flight together.                                           *)
(***************************************************************************)
\* the Delete button of a row that is shown and not being edited, and the
\* checkbox of a pair whose assignment panel is shown, issue a call when clicked
\* (and confirmed), as long as the behaviour has calls left
DeleteOffered(comp, id) ==
  CASE comp = "RegionList" -> ENABLED RegionList_handleDelete(id, TRUE)
    [] comp = "ManagerList" -> ENABLED ManagerList_handleDelete(id, TRUE)
    [] comp = "LifeguardList" -> ENABLED LifeguardList_handleDelete(id, TRUE)

RowOffersDelete(comp, id) ==
  /\ mutations < budget
  /\ ~ui[comp].loading
  /\ id \in Ids(Entities(comp, ui[comp]))
  /\ EditingId(comp, ui[comp]) # id

CheckboxOffered(call) ==
  IF call.comp = "RegionList"
  THEN \E region \in Range(regionList.regions), manager \in Range(regionList.allManagers) :
         /\ region.id = call.req.region /\ manager.id = call.req.manager
         /\ ENABLED RegionList_toggleManagerAssignment(region, manager)
  ELSE \E manager \in Range(managerList.managers), region \in Range(managerList.allRegions) :
         /\ region.id = call.req.region /\ manager.id = call.req.manager
         /\ ENABLED ManagerList_toggleRegionAssignment(manager, region)

PanelShowsCheckbox(call) ==
  /\ mutations < budget
  /\ ~ui[call.comp].loading
  /\ IF call.comp = "RegionList"
     THEN /\ regionList.assigningRegionId = call.req.region
          /\ call.req.region \in Ids(regionList.regions)
          /\ call.req.manager \in Ids(regionList.allManagers)
     ELSE /\ managerList.assigningManagerId = call.req.manager
          /\ call.req.manager \in Ids(managerList.managers)
          /\ call.req.region \in Ids(managerList.allRegions)

\* a delete or a toggle in flight disables nothing: the button and the checkbox
\* that issued it issue a second call
SecondCallOffered ==
  /\ \A i \in DOMAIN net :
       net[i].kind \in DeleteKinds /\ RowOffersDelete(net[i].comp, net[i].req.id) =>
         DeleteOffered(net[i].comp, net[i].req.id)
  /\ \A i \in DOMAIN net :
       net[i].kind \in AssignKinds /\ PanelShowsCheckbox(net[i]) =>
         CheckboxOffered(net[i])

MutationKinds == CreateKinds \cup UpdateKinds \cup DeleteKinds \cup AssignKinds

\* the mutations of the Region, Manager and Lifeguard lists whose continuation a
\* step runs after they have succeeded
Succeeded ==
  {i \in Continued : /\ net[i].comp \in EditingLists
                     /\ net[i].kind \in MutationKinds
                     /\ net[i].phase = "ok"}

\* the relationship toggles of the Manager list among them: their continuation
\* awaits a fetch cycle before it signals
Deferred == {i \in Succeeded : net[i].comp = "ManagerList" /\ net[i].kind \in AssignKinds}

\* the fetch cycles a continuation has awaited whose continuation a step runs
Awaited == {i \in Continued : net[i].kind = "fetch" /\ net[i].explicit}

\* C32 as stated: the refresh counter starts at 0, and a step adds to it the
\* number of mutations whose continuation it runs after they have succeeded, and
\* nothing else: the counter is the number of mutations that have succeeded
CounterCountsSuccesses ==
  /\ refreshSignal = 0
  /\ [][refreshSignal' = refreshSignal + Cardinality(Succeeded)]_vars

\* C32: the refresh counter starts at 0 and a step adds 1 to it for every
\* mutation of the Region, Manager and Lifeguard lists whose continuation it
\* runs after it has succeeded, but for the relationship toggles of the Manager
\* list, whose continuation starts one fetch cycle instead and signals when the
\* continuation of that cycle runs, whether the cycle has failed or not; no
\* other step changes the counter
CounterCountsSignals ==
  /\ refreshSignal = 0
  /\ [][ /\ refreshSignal' =
              refreshSignal + Cardinality(Succeeded \ Deferred) + Cardinality(Awaited)
         /\ Cardinality({i \in Issued : net'[i].kind = "fetch" /\ net'[i].explicit})
              = Cardinality(Deferred)
       ]_vars

\* C32 witness: a relationship toggle of the Manager list has succeeded and its
\* continuation has run, the fetch cycle it awaits is in flight, and the refresh
\* counter is still 0
SignalAwaitsRefetch ==
  /\ screen = "managers"
  /\ refreshSignal = 0
  /\ server.assigned # ServerInit.assigned
  /\ InFlight("ManagerList", AssignKinds) = {}
  /\ \E i \in InFlight("ManagerList", {"fetch"}) : net[i].explicit

(***************************************************************************)
(* Responses that interleave.                                              *)
(***************************************************************************)
\* the entity of its list a save or a relationship toggle is about
Target(call) ==
  IF call.kind \in UpdateKinds THEN call.req.id
  ELSE IF call.comp = "RegionList" THEN call.req.region
  ELSE call.req.manager

IdsInOrder(coll) == [k \in 1..Len(coll) |-> coll[k].id]

\* C37: the continuation of a save or of a relationship toggle that has succeeded
\* leaves the ids of the collection of its list, and their order, as they are,
\* and leaves the whole collection as it is when the entity it is about is no
\* longer in it; a step that adds an entity to the collection of a list is the
\* continuation of a fetch cycle that has resolved or of a create that has
\* succeeded
ResponsesNeverAdd ==
  [][ /\ \A i \in Succeeded :
           net[i].kind \in UpdateKinds \cup AssignKinds =>
             LET before == Entities(net[i].comp, ui[net[i].comp])
                 after == Entities(net[i].comp, ui'[net[i].comp])
             IN /\ IdsInOrder(after) = IdsInOrder(before)
                /\ Target(net[i]) \notin Ids(before) => after = before
      /\ \A comp \in EditingLists :
           LET before == Entities(comp, ui[comp])
               after == Entities(comp, ui'[comp])
           IN Len(after) > Len(before) \/ ~(Ids(after) \subseteq Ids(before)) =>
                \E i \in Continued :
                  /\ net[i].comp = comp
                  /\ \/ net[i].kind = "fetch" /\ Resolved(net[i])
                     \/ net[i].kind \in CreateKinds /\ net[i].phase = "ok"
    ]_vars

\* C37 witness: the save of a region has succeeded and its response has arrived,
\* and the region, deleted in between, is no longer in the collection
SavedEntityIsGone ==
  \E i \in InFlight("RegionList", UpdateKinds) :
    /\ net[i].phase = "ok"
    /\ ~regionList.loading
    /\ regionList.regions # <<>>
    /\ net[i].req.id \notin Ids(regionList.regions)

\* C33: the continuation of a save that has succeeded ends the edit session of
\* the saved entity only: where the list is editing another entity by then, the
\* editing id and the staged values are as they were
SaveEndsOwnSessionOnly ==
  [][ \A i \in Continued :
        UpdateSucceeded(i) =>
          LET comp == net[i].comp
          IN EditingId(comp, ui[comp]) \notin {NoId, net[i].req.id} =>
               /\ EditingId(comp, ui'[comp]) = EditingId(comp, ui[comp])
               /\ Staged(comp, ui'[comp]) = Staged(comp, ui[comp])
    ]_vars

\* C34: in the Region, Manager and Lifeguard lists the collection of the list
\* never holds two entities of one id, however the responses of fetch cycles
\* and of creates interleave
NoDuplicateIds ==
  \A comp \in EditingLists :
    LET coll == Entities(comp, ui[comp])
    IN \A k, l \in 1..Len(coll) : coll[k].id = coll[l].id => k = l

\* C35: the loading flag of a list is true exactly when a fetch cycle of the list
\* is in flight
LoadingWhileFetching ==
  \A comp \in FetchingLists :
    ui[comp].loading <=> InFlight(comp, {"fetch"}) # {}

\* C36: an editing id and an assigning id that are not null are the id of an
\* entity of the collection of the list
PanelsPointAtEntities ==
  /\ \A comp \in EditingLists :
       EditingId(comp, ui[comp]) # NoId =>
         EditingId(comp, ui[comp]) \in Ids(Entities(comp, ui[comp]))
  /\ regionList.assigningRegionId # NoId =>
       regionList.assigningRegionId \in Ids(regionList.regions)
  /\ managerList.assigningManagerId # NoId =>
       managerList.assigningManagerId \in Ids(managerList.managers)

\* the delete of entity id of a list has succeeded and its continuation has
\* removed the entity: the back end does not hold it, the list does not hold it,
\* and no delete of it is in flight
DeletedAndRemoved(comp, id) ==
  /\ id \notin Ids(List(server, FetchCalls(comp)[1]))
  /\ id \notin Ids(Entities(comp, ui[comp]))
  /\ \A i \in InFlight(comp, DeleteKinds) : net[i].req.id # id

\* C39: an entity whose delete has succeeded and that has been removed from the
\* collection of the list is not in the collection after any step
DeletedStaysDeleted ==
  [][ \A comp \in FetchingLists :
        \A id \in Ids(Entities(comp, ui'[comp])) : ~DeletedAndRemoved(comp, id)
    ]_vars

(***************************************************************************)
(* A checkbox clicked again while its call is in flight.                   *)
(***************************************************************************)
AssigningLists == {"RegionList", "ManagerList"}

\* whether the row of the pair, as the list holds it in s, has the pair assigned
Assigned(comp, s, req) ==
  IF comp = "RegionList"
  THEN \E k \in 1..Len(s.regions) :
         s.regions[k].id = req.region /\ req.manager \in s.regions[k].managers
  ELSE \E k \in 1..Len(s.managers) :
         s.managers[k].id = req.manager /\ req.region \in s.managers[k].regions

\* the toggles of the checkbox of call k that the same list has in flight: their
\* responses have not reached the list, whether or not the back end has served
\* them
Unanswered(k) ==
  {j \in DOMAIN net : /\ net[j].comp = net'[k].comp
                      /\ net[j].kind \in AssignKinds
                      /\ net[j].req = net'[k].req}

\* the calls whose continuation replaces the row of the pair in the list
ReplacesRow(comp, req) ==
  {i \in Continued : /\ net[i].comp = comp
                     /\ Settled(net[i])
                     /\ \/ net[i].kind = "fetch"
                        \/ /\ net[i].kind \in AssignKinds
                           /\ Target(net[i]) = Target([net[i] EXCEPT !.req = req])}

====
